---- MODULE Spec2Model ----
(***************************************************************************)
(* Model of the conversion pipeline of src/universal_converter.js:         *)
(* UniversalConverter.processAllDataFiles and the per-file batch / shard / *)
(* checkpoint writer it drives, together with the record converter and     *)
(* the embedding generator as far as the pipeline observes them.           *)
(*                                                                         *)
(* Node.js runs one callback at a time: an action of this model is the     *)
(* code executed between two suspension points (await) of one async        *)
(* function.                                                               *)
(***************************************************************************)
EXTENDS Integers, Sequences, FiniteSets, TLC

(***************************************************************************)
(* Bounds of the model.                                                    *)
(***************************************************************************)
\* largest number of raw products in one input file
MaxRecords == 2

(***************************************************************************)
(* Program constants.                                                      *)
(***************************************************************************)
RETRY_ATTEMPTS == 3
SHARD_OUTPUT == TRUE
CHECKPOINT_ENABLED == TRUE

\* The eligible files of the input directory, in the order readdirSync
\* lists them (discoverJSONFiles keeps that order).
DiscoveredFiles == <<"a.json", "b.json">>

Files == {DiscoveredFiles[i] : i \in 1..Len(DiscoveredFiles)}

(***************************************************************************)
(* Raw products.  What a raw product does to the converter and to the      *)
(* embedding generator is all the pipeline observes of it:                 *)
(*   "ok"         converts and is enriched                                 *)
(*   "enrichfail" converts; enrichment raises (e.g. brands is a string,    *)
(*                so (product.brands || []).map is not a function)         *)
(*   "noprod"     the converter raises inside its try block with a         *)
(*                non-null product and returns null (e.g. a                *)
(*                filter_fields.text that is not iterable)                 *)
(*   "nullrec"    the JSON value null: the converter's catch handler       *)
(*                reads vertexProduct.id and raises again                  *)
(***************************************************************************)
RawKinds == {"ok", "enrichfail", "noprod", "nullrec"}

\* attributes injected by addEmbeddingsToProduct
GeneratedAttrs ==
    {"dense_embedding", "title_embedding", "category_embedding",
     "sparse_embedding", "search_readiness_score", "embedding_count"}

\* steps of addEmbeddingsToProduct that can raise before the clone is made:
\* extractSearchableText, extractSearchableComponents,
\* generateMultipleDenseEmbeddings, generateSparseEmbedding,
\* generateEnhancedHybridMetadata
EnrichSteps == 1..5

VARIABLES
    cfg,            \* CONFIG.PROCESSING values of this run and PQueue's presence
    dir,            \* the input directory: "missing", "empty" or "ok"
    ckFile,         \* the checkpoint file on disk
    ckMem,          \* this.checkpointData.processedFiles
    runPc,          \* position of processAllDataFiles
    resuming,       \* the value loadCheckpoint returned
    toProcess,      \* filesToProcess
    pc,             \* per file: position of processFileWithTracking
    len,            \* per file: products.length once parsed
    input,          \* per file: kinds of the raw products consumed so far
    pos,            \* per file: the loop variable i of processBatchesWithSharding
    processedCount, \* per file: processedCount of processBatchesWithSharding
    attempts,       \* per file: attempts on the record being retried
    shards,         \* per file: the lines written to each output shard, in order
    converted,      \* per file: convertedProducts
    err,            \* per file: the error being thrown, "" if none
    currentShard,   \* per file: currentShard of processBatchesWithSharding
    opened,         \* per file: the paths given to createWriteStream, in order
    convFile,       \* processAnyJSONFile on one file: its JSON shape, the format hint
    convPc,         \* position of processAnyJSONFile on that file
    parsed,         \* the products parseJSONFile returned, as far as they were read
    convFormat,     \* detectedFormat
    now,            \* Date.now(), in milliseconds since the file was opened
    emitted,        \* the raw records normalized so far and the records emitted
    retryBatch,     \* processBatchWithRetry: the kinds of the records of batch
    retryFormat,    \* its argument detectedFormat
    retryIdx,       \* the position in batch of the record product
    retryAttempts,  \* its local attempts
    retryPc,        \* its position
    retryResults,   \* its local results
    retryLog,       \* history: the attempts made and the delays waited, in order
    parseFile,      \* the top-level JSON value of the file given to parseJSONFile
    parseHint,      \* the format hint given with it
    streamed,       \* what parseWithStreaming settled with on that file
    fallback,       \* what parseWithFallback settled with on that file
    detected,       \* what detectFormatAndExtractProducts returned on that value
    kwText,         \* extractKeywords called on its own: the tokens of its text
    kwContext,      \* its argument context
    kwResult,       \* history: what each token added to termFreq, and the weights returned
    outMode,        \* one file written through a stream: custom mode or default mode
    outTotal,       \* the lines processBatchesWithSharding has to write for it
    outBuffered,    \* lines given to currentShardStream.write, not yet in the file
    outOnDisk,      \* lines that reached the output file
    outPc,          \* position of the code that writes the file and records it
    listing,        \* the names fs.readdirSync returns for the input directory
    jsonFiles,      \* the names discoverJSONFiles keeps
    outputPaths,    \* the output path generateOutputPath gave to each file so far
    pathPc,         \* position of the discovery
    embCfg,         \* CONFIG.EMBEDDINGS.ENABLE_DENSE and ENABLE_SPARSE
    embInput,       \* addEmbeddingsToProduct followed attribute by attribute: the product's texts
    embResult,      \* the embedding attributes it attached and the embedding_count it set
    stats,          \* this.stats.processedFiles
    combined,       \* the combined output: the lines of each combined shard
    report,         \* the report written by generateDynamicFinalReport
    monitor,        \* the memory sampler is running
    saves,          \* history: number of saveCheckpoint executions in the run
    runProcessed,   \* history: records processed in the run (sum of batch.length)
    ckDeleted,      \* history: the run unlinked the checkpoint file
    ckStart,        \* history: the checkpoint file the run found at its start
    completionOrder, \* history: files in the order their processing completed
    reLastIndex,    \* lastIndex of each TEXT_PATTERNS regex getPatternBoost tests
    enrichLog       \* history: the calls of addEmbeddingsToProduct and their results

fileVars == <<pc, len, input, pos, processedCount, attempts, shards, converted, err>>
runVars == <<cfg, dir, runPc, resuming, toProcess, combined, report, monitor>>
ckVars == <<ckFile, ckMem, saves, ckDeleted, ckStart>>
enrichVars == <<reLastIndex, enrichLog>>
shardVars == <<currentShard, opened>>
convVars == <<convFile, convPc, parsed, convFormat, now, emitted>>
retryVars == <<retryBatch, retryFormat, retryIdx, retryAttempts, retryPc, retryResults,
               retryLog>>
parseVars == <<parseFile, parseHint, streamed, fallback, detected>>
keywordVars == <<kwText, kwContext, kwResult>>
streamVars == <<outMode, outTotal, outBuffered, outOnDisk, outPc>>
pathVars == <<listing, jsonFiles, outputPaths, pathPc>>
countVars == <<embCfg, embInput, embResult>>
vars == <<fileVars, runVars, ckVars, stats, runProcessed, completionOrder, enrichVars,
          shardVars, convVars, retryVars, parseVars, keywordVars, streamVars, pathVars, countVars>>

(***************************************************************************)
(* Helpers on sequences.                                                   *)
(***************************************************************************)
Min(a, b) == IF a < b THEN a ELSE b

RECURSIVE Flatten(_)
Flatten(ss) == IF ss = <<>> THEN <<>> ELSE Head(ss) \o Flatten(Tail(ss))

RECURSIVE SeqSum(_)
SeqSum(s) == IF s = <<>> THEN 0 ELSE Head(s) + SeqSum(Tail(s))

IndexOf(f) == CHOOSE i \in 1..Len(DiscoveredFiles) : DiscoveredFiles[i] = f

(***************************************************************************)
(* UniversalConverter.loadCheckpoint: the value it returns and the set it  *)
(* leaves in checkpointData.processedFiles (mem is the set before).        *)
(***************************************************************************)
loadCheckpoint(ck, mem) ==
    IF CHECKPOINT_ENABLED /\ ck.state = "ok"
    THEN [resuming |-> TRUE, files |-> ck.files]
    ELSE [resuming |-> FALSE, files |-> mem]

\* FilesToProcess with the filter comparing full paths with the names the
\* checkpoint holds, so that nothing matches
FilesToProcess_NoMatch(res, mem) == DiscoveredFiles

\* processAllDataFiles: "Filter out already processed files if resuming"
FilesToProcess(res, mem) ==
    IF res
    THEN SelectSeq(DiscoveredFiles, LAMBDA f : f \notin mem)
    ELSE DiscoveredFiles

\* saveCheckpoint writing the names of all discovered files, the files in
\* progress and the failed ones included
saveCheckpoint_Discovered(ck, mem) ==
    IF CHECKPOINT_ENABLED THEN [state |-> "ok", files |-> Files] ELSE ck

\* saveCheckpoint: the file it leaves
saveCheckpoint(ck, mem) ==
    IF CHECKPOINT_ENABLED THEN [state |-> "ok", files |-> mem] ELSE ck

(***************************************************************************)
(* ProductConverter.convertVertexProduct on the raw product number i of    *)
(* file f.  (processFileWithTracking passes the hint 'auto' and            *)
(* processAnyJSONFile hands detectFormatAndExtractProducts the wrapper     *)
(* {products}, so the detected format of the pipeline is 'vertex'.)        *)
(***************************************************************************)
convertVertexProduct(f, i, kind) ==
    CASE kind = "nullrec" -> [outcome |-> "throw", product |-> [src |-> f, idx |-> i, attrs |-> {}]]
      [] kind = "noprod"  -> [outcome |-> "null", product |-> [src |-> f, idx |-> i, attrs |-> {}]]
      [] OTHER            -> [outcome |-> "product", product |-> [src |-> f, idx |-> i, attrs |-> {}]]

\* addEmbeddingsToProduct setting the attributes on the product itself as
\* they are generated, so that a later step raising leaves them behind
addEmbeddingsToProduct_InPlace(product, raiseAt) ==
    IF raiseAt \in EnrichSteps
    THEN [product EXCEPT !.attrs =
            @ \cup (IF raiseAt > 3 THEN {"dense_embedding"} ELSE {})]
    ELSE [product EXCEPT !.attrs = @ \cup GeneratedAttrs]

(***************************************************************************)
(* EmbeddingGenerator.addEmbeddingsToProduct.  raiseAt is the step that    *)
(* raises (0: none).  The attributes are set on a clone made after every   *)
(* step that can raise; the catch handler returns the product it was       *)
(* given.                                                                  *)
(***************************************************************************)
addEmbeddingsToProduct(product, raiseAt) ==
    IF raiseAt \in EnrichSteps
    THEN product
    ELSE [product EXCEPT !.attrs = @ \cup GeneratedAttrs]

\* countProductsWithEmbeddings
hasEmbeddings(product) ==
    product.attrs \cap {"dense_embedding", "title_embedding",
                        "category_embedding", "sparse_embedding"} # {}

countProductsWithEmbeddings(products) ==
    Cardinality({i \in 1..Len(products) : hasEmbeddings(products[i])})

\* processBatchWithRetry putting each result in front of the earlier ones
RECURSIVE processBatchWithRetry_Unshift(_, _, _, _)
processBatchWithRetry_Unshift(f, start, ks, step) ==
    IF ks = <<>> THEN <<>>
    ELSE LET c == [outcome |-> IF Head(ks) = "noprod" THEN "null" ELSE "product",
                   product |-> [src |-> f, idx |-> start + 1, attrs |-> {}]]
         IN processBatchWithRetry_Unshift(f, start + 1, Tail(ks), step)
            \o (IF c.outcome = "product"
                THEN <<[c.product EXCEPT !.attrs =
                          IF Head(ks) = "enrichfail" THEN {} ELSE GeneratedAttrs]>>
                ELSE <<>>)

(***************************************************************************)
(* UniversalConverter.processBatchWithRetry on a batch none of whose       *)
(* records makes the converter throw: ks are the kinds of the batch's      *)
(* records, start the number of records before the batch.  A record whose  *)
(* conversion returns null is attempted RETRY_ATTEMPTS times and pushes    *)
(* nothing.                                                                *)
(***************************************************************************)
RECURSIVE processBatchWithRetry(_, _, _, _)
processBatchWithRetry(f, start, ks, step) ==
    IF ks = <<>> THEN <<>>
    ELSE LET c == convertVertexProduct(f, start + 1, Head(ks))
             raiseAt == IF Head(ks) = "enrichfail" THEN step ELSE 0
         IN (IF c.outcome = "product"
             THEN <<addEmbeddingsToProduct(c.product, raiseAt)>>
             ELSE <<>>)
            \o processBatchWithRetry(f, start + 1, Tail(ks), step)

\* WriteLine testing currentShardLines > maxLinesPerShard, so that a shard
\* takes one line more than the bound
WriteLine_RotateLate(sh, product, shouldShard, maxLines) ==
    IF shouldShard /\ Len(sh[Len(sh)]) > maxLines
    THEN Append(sh, <<product>>)
    ELSE [sh EXCEPT ![Len(sh)] = Append(@, product)]

\* WriteLine opening the next shard without writing the line that did not
\* fit into the full one
WriteLine_DropOnRotate(sh, product, shouldShard, maxLines) ==
    IF shouldShard /\ Len(sh[Len(sh)]) >= maxLines
    THEN Append(sh, <<>>)
    ELSE [sh EXCEPT ![Len(sh)] = Append(@, product)]

(***************************************************************************)
(* processBatchesWithSharding, "Write results to current shard": sh are    *)
(* the shards so far, the last one being the open stream.                  *)
(***************************************************************************)
WriteLine(sh, product, shouldShard, maxLines) ==
    IF shouldShard /\ Len(sh[Len(sh)]) >= maxLines
    THEN Append(sh, <<product>>)
    ELSE [sh EXCEPT ![Len(sh)] = Append(@, product)]

RECURSIVE WriteResults(_, _, _, _)
WriteResults(sh, results, shouldShard, maxLines) ==
    IF results = <<>> THEN sh
    ELSE WriteResults(WriteLine(sh, Head(results), shouldShard, maxLines),
                      Tail(results), shouldShard, maxLines)

ShouldShard(n, maxLines) == SHARD_OUTPUT /\ n > maxLines

\* the output path generateOutputPath gives a file: no shard ordinal in it
OutputPath == <<>>

\* getShardPath numbering the shard files from 001
getShardPath_FromOne(shardIndex) ==
    <<(shardIndex + 1) \div 100, ((shardIndex + 1) \div 10) % 10, (shardIndex + 1) % 10>>

\* getShardPath: the ordinal it puts in the file name,
\* shardIndex.toString().padStart(3, '0'), as its digits
getShardPath(shardIndex) ==
    IF shardIndex < 10 THEN <<0, 0, shardIndex>>
    ELSE IF shardIndex < 100 THEN <<0, shardIndex \div 10, shardIndex % 10>>
    ELSE <<shardIndex \div 100, (shardIndex \div 10) % 10, shardIndex % 10>>

\* processBatchesWithSharding, "Write results to current shard": currentShard
\* and the paths opened, o being their values and sh the shards before the
\* results are written
RECURSIVE OpenShards(_, _, _, _, _)
OpenShards(o, sh, results, shouldShard, maxLines) ==
    IF results = <<>> THEN o
    ELSE OpenShards(
            IF shouldShard /\ Len(sh[Len(sh)]) >= maxLines
            THEN [cur |-> o.cur + 1,
                  paths |-> Append(o.paths, getShardPath(o.cur + 1))]
            ELSE o,
            WriteLine(sh, Head(results), shouldShard, maxLines),
            Tail(results), shouldShard, maxLines)

\* "Save checkpoint periodically"
CheckpointDue(count, interval) == count % interval = 0

(***************************************************************************)
(* writeCombinedOutput: the shards it writes.  Sharded, a new shard is     *)
(* started whenever the current one is empty and the current one is ended  *)
(* when it holds MAX_LINES_PER_SHARD lines; otherwise one file.            *)
(***************************************************************************)
RECURSIVE CombinedShards(_, _)
CombinedShards(all, maxLines) ==
    IF Len(all) <= maxLines THEN <<all>>
    ELSE <<SubSeq(all, 1, maxLines)>>
         \o CombinedShards(SubSeq(all, maxLines + 1, Len(all)), maxLines)

writeCombinedOutput(all, maxLines) ==
    IF ShouldShard(Len(all), maxLines)
    THEN CombinedShards(all, maxLines)
    ELSE <<all>>

\* CollectResults putting each file's products in front of those collected
\* before
RECURSIVE CollectResults_Reversed(_, _, _)
CollectResults_Reversed(order, ok, vals) ==
    IF order = <<>> THEN <<>>
    ELSE CollectResults_Reversed(Tail(order), ok, vals)
         \o (IF ok[Head(order)] THEN vals[Head(order)] ELSE <<>>)

\* processAllDataFiles: allConvertedProducts collected from the settled
\* results, which Promise.allSettled returns in the order of filesToProcess
\* (the sequential loop pushes in the same order).  vals[f] is the value
\* file f's processFileWithTracking returned, ok[f] whether it is non-null.
RECURSIVE CollectResults(_, _, _)
CollectResults(order, ok, vals) ==
    IF order = <<>> THEN <<>>
    ELSE (IF ok[Head(order)] THEN vals[Head(order)] ELSE <<>>)
         \o CollectResults(Tail(order), ok, vals)

NoStats ==
    [recorded |-> FALSE, processed |-> FALSE, totalProducts |-> 0,
     withEmbeddings |-> 0, error |-> "", outputPath |-> "null"]

NoReport ==
    [written |-> FALSE, total_files_discovered |-> 0, successfully_processed |-> 0,
     failed_to_process |-> 0, total_products |-> 0, products_with_embeddings |-> 0,
     embedding_success_rate |-> [hundredths |-> 0, decimals |-> 0],
     validation |-> [isValid |-> TRUE, errors |-> {}]]

(***************************************************************************)
(* The text processor and the embedding generator.                         *)
(*                                                                         *)
(* Texts are sequences of tokens: the words natural's WordTokenizer        *)
(* returns for the cleaned, lower-cased text.  Every token of Vocabulary   *)
(* passes the filter of extractKeywords (two characters or more, no stop   *)
(* word, alphabetic) and no stem is a key of SYNONYMS.  Weights are        *)
(* integers: a boost is counted in tenths, a weight in 1/10000.            *)
(***************************************************************************)
Vocabulary == {"organic", "whey", "products", "red", "large", "brand"}

\* token.length
TokenLen ==
    [t \in Vocabulary |->
        CASE t = "organic" -> 7 [] t = "whey" -> 4 [] t = "products" -> 8
          [] t = "red" -> 3 [] t = "large" -> 5 [] t = "brand" -> 5]

\* natural.PorterStemmer.stem
stem ==
    [t \in Vocabulary |->
        CASE t = "organic" -> "organ" [] t = "whey" -> "whei"
          [] t = "products" -> "product" [] t = "red" -> "red"
          [] t = "large" -> "larg" [] t = "brand" -> "brand"]

Terms == {stem[t] : t \in Vocabulary}

\* the regex objects of TEXT_PATTERNS in the order getPatternBoost tests them
PatternNames == {"commerceTerms", "sizes", "colors", "numbers", "brands"}
PatternOrder == <<"commerceTerms", "sizes", "colors", "numbers", "brands">>

\* the tokens of Vocabulary each pattern matches (BRANDS wants a capital
\* letter and the tokens are lower case)
PatternTokens ==
    [r \in PatternNames |->
        CASE r = "commerceTerms" -> {"organic"}
          [] r = "sizes" -> {"large"}
          [] r = "colors" -> {"red"}
          [] OTHER -> {}]

\* PATTERN_BOOSTS, in tenths
PATTERN_BOOSTS ==
    [r \in PatternNames |->
        CASE r = "commerceTerms" -> 15 [] r = "sizes" -> 13 [] r = "colors" -> 12
          [] r = "numbers" -> 11 [] r = "brands" -> 14]

\* CONFIG.EMBEDDINGS.KEYWORD_BOOST, in tenths
KEYWORD_BOOST ==
    [title |-> 30, brand |-> 25, category |-> 20, description |-> 15, features |-> 12]

(***************************************************************************)
(* RegExp.prototype.test of a regex with the g flag on a token: the search *)
(* starts at lastIndex.  Every pattern starts and ends with \b and a token *)
(* has no word boundary inside, so only lastIndex 0 can match; a match     *)
(* leaves lastIndex at the end of the token, a failure resets it to 0.     *)
(***************************************************************************)
regexTest(r, token, lastIndex) ==
    IF lastIndex = 0 /\ token \in PatternTokens[r]
    THEN [matched |-> TRUE, lastIndex |-> TokenLen[token]]
    ELSE [matched |-> FALSE, lastIndex |-> 0]

\* TextProcessor.getPatternBoost: the boost in 1/100000 and the regex state
\* it leaves
RECURSIVE PatternBoostFrom(_, _, _, _)
PatternBoostFrom(k, token, st, boost) ==
    IF k > Len(PatternOrder) THEN [boost |-> boost, st |-> st]
    ELSE LET r == PatternOrder[k]
             t == regexTest(r, token, st[r])
         IN PatternBoostFrom(k + 1, token, [st EXCEPT ![r] = t.lastIndex],
                             IF t.matched THEN boost * PATTERN_BOOSTS[r]
                             ELSE boost * 10)

getPatternBoost(token, st) == PatternBoostFrom(1, token, st, 1)

\* TextProcessor.getContextBoosts: KEYWORD_BOOST with the entry of the
\* context set again to the value it has
getContextBoosts(context) ==
    CASE context = "title" -> [KEYWORD_BOOST EXCEPT !.title = 30]
      [] context = "description" -> [KEYWORD_BOOST EXCEPT !.description = 15]
      [] context = "category" -> [KEYWORD_BOOST EXCEPT !.category = 20]
      [] context = "brand" -> [KEYWORD_BOOST EXCEPT !.brand = 25]
      [] OTHER -> KEYWORD_BOOST

\* extractKeywords: contextBoosts[token] || contextBoosts[stemmed] || 1
ContextBoost(context, token) ==
    LET boosts == getContextBoosts(context)
    IN IF token \in DOMAIN boosts THEN boosts[token]
       ELSE IF stem[token] \in DOMAIN boosts THEN boosts[stem[token]]
       ELSE 10

\* extractKeywords, the term frequencies (in 1/1000000) and the regex state
RECURSIVE TermFreqFrom(_, _, _, _)
TermFreqFrom(tokens, context, st, tf) ==
    IF tokens = <<>> THEN [tf |-> tf, st |-> st]
    ELSE LET pb == getPatternBoost(Head(tokens), st)
             boost == ContextBoost(context, Head(tokens)) * pb.boost
         IN TermFreqFrom(Tail(tokens), context, pb.st,
                         [tf EXCEPT ![stem[Head(tokens)]] = @ + boost])

\* n / d rounded to the nearest integer
Rounded(n, d) == (2 * n + d) \div (2 * d)

\* TextProcessor.extractKeywords: the weight (freq / totalTokens).toFixed(4)
\* of each term, 0 for a term that does not occur, and the regex state
extractKeywords(tokens, context, st) ==
    IF tokens = <<>> THEN [weight |-> [t \in Terms |-> 0], st |-> st]
    ELSE LET r == TermFreqFrom(tokens, context, st, [t \in Terms |-> 0])
         IN [weight |-> [t \in Terms |-> Rounded(r.tf[t], 100 * Len(tokens))],
             st |-> r.st]

RECURSIVE Repeat(_, _)
Repeat(s, n) == IF n = 0 THEN <<>> ELSE s \o Repeat(s, n - 1)

\* TextProcessor.extractSearchPatterns: String.prototype.match with a g
\* regex returns every match and leaves lastIndex 0
patternMatches(text, r) == SelectSeq(text, LAMBDA t : t \in PatternTokens[r])

extractSearchPatterns(st) ==
    [st EXCEPT !.sizes = 0, !.colors = 0, !.brands = 0, !.numbers = 0]

\* EmbeddingGenerator.extractSearchableText
extractSearchableText(product) ==
    LET weightedText ==
            Repeat(product.title, 5) \o Repeat(product.categories, 3)
            \o Repeat(product.brands, 3) \o Repeat(product.description, 2)
            \o Repeat(product.attributes, 2)
    IN weightedText \o patternMatches(weightedText, "sizes")
       \o patternMatches(weightedText, "colors")
       \o patternMatches(weightedText, "numbers")

\* EmbeddingGenerator.hashString over the tokens (TokenLen standing for the
\* character codes), kept to 15 bits
RECURSIVE hashFrom(_, _)
hashFrom(text, hash) ==
    IF text = <<>> THEN hash
    ELSE hashFrom(Tail(text), (hash * 31 + TokenLen[Head(text)]) % 32768)

\* EmbeddingGenerator.generateDenseEmbedding: the vector is computed from
\* the hash of the text and nothing else; it is represented by that hash
generateDenseEmbedding(text) == hashFrom(text, 0)

\* EmbeddingGenerator.generateSparseEmbedding: the five extractions in the
\* order they are evaluated, combined with the weights 1, 2.5, 2, 2, 1.5
\* and formatted with toFixed(4)
generateSparseEmbedding(text, product, st) ==
    LET general == extractKeywords(text, "general", st)
        title == extractKeywords(product.title, "title", general.st)
        category == extractKeywords(product.categories, "category", title.st)
        brand == extractKeywords(product.brands, "brand", category.st)
        attrs == extractKeywords(product.attributes, "attributes", brand.st)
        present == {stem[text[i]] : i \in 1..Len(text)}
    IN [keywords |->
            {<<t, Rounded(10 * general.weight[t] + 25 * title.weight[t]
                          + 20 * category.weight[t] + 20 * brand.weight[t]
                          + 15 * attrs.weight[t], 10)>> : t \in present},
        st |-> attrs.st]

\* EmbeddingGenerator.calculateSearchReadinessScore, in hundredths
calculateSearchReadinessScore(product, hasDense, sparse) ==
    (IF product.title # <<>> THEN 30 ELSE 0)
    + (IF product.categories # <<>> THEN 25 ELSE 0)
    + (IF product.description # <<>> THEN 20 ELSE 0)
    + (IF hasDense THEN 10 ELSE 0)
    + (IF sparse # {} THEN 5 ELSE 0)
    + (IF product.brands # <<>> THEN 5 ELSE 0)
    + (IF product.attributes # <<>> THEN 5 ELSE 0)

\* canonical records the generator is called on
SampleProducts ==
    [whey |-> [title |-> <<"whey">>, categories |-> <<"products">>,
               brands |-> <<>>, description |-> <<>>, attributes |-> <<>>],
     organic |-> [title |-> <<"organic">>, categories |-> <<"products">>,
                  brands |-> <<"organic">>, description |-> <<>>, attributes |-> <<>>],
     red |-> [title |-> <<"large", "red">>, categories |-> <<"organic">>,
              brands |-> <<>>, description |-> <<"whey">>, attributes |-> <<>>],
     plain |-> [title |-> <<"organic", "whey">>, categories |-> <<"products">>,
                brands |-> <<>>, description |-> <<>>, attributes |-> <<"red">>]]

\* largest number of addEmbeddingsToProduct calls followed
MaxEnrichCalls == 4

(***************************************************************************)
(* Raw records as the converters read them.  A field is <<>> when the      *)
(* source does not carry it and <<v>> when it carries the value v.  The     *)
(* strings used need no cleaning: cleanText returns them as they are.      *)
(***************************************************************************)
AvailabilityValues == {"IN_STOCK", "OUT_OF_STOCK", "PREORDER", "sold out"}

DefaultRaw ==
    [id |-> <<"p1">>, title |-> <<"Gadget">>, name |-> <<>>, cost |-> <<>>,
     categories |-> <<>>, availability |-> <<>>, quantity |-> <<>>]

\* records that differ in the fields format detection and the alias table read
RawShapes ==
    {[DefaultRaw EXCEPT !.title = t, !.name = n, !.cost = c, !.categories = g] :
        t \in {<<>>, <<"Gadget">>}, n \in {<<>>, <<"Widget">>},
        c \in {<<>>, <<5>>}, g \in {<<>>, <<"Tools">>}}

\* records that differ in their stock fields
RawStocks ==
    {[DefaultRaw EXCEPT !.availability = a, !.quantity = q] :
        a \in {<<>>} \cup {<<v>> : v \in AvailabilityValues},
        q \in {<<>>, <<0>>, <<3>>}}

\* records with and without an id
RawIds == {[DefaultRaw EXCEPT !.id = i] : i \in {<<>>, <<"p1">>}}

RawRecords == RawShapes \cup RawStocks \cup RawIds

\* the JSON shapes parseWithFallback and detectFormatAndExtractProducts
\* tell apart: a bare array, an object with a products, data or items array,
\* any other object
FileShapes == {"array", "products", "data", "items", "object"}

\* the format hints that have a converter
FormatHints == {"auto", "vertex", "generic"}

\* the id of an emitted record: the source's, or the prefix and Date.now()
SourceId(name) == [prefix |-> "", stamp |-> 0, name |-> name]
SynthesizedId(prefix, clock) == [prefix |-> prefix, stamp |-> clock, name |-> ""]

\* String.prototype.includes on the lower-cased stock values
includes(value, needle) ==
    CASE needle = "stock" -> value \in {"IN_STOCK", "OUT_OF_STOCK"}
      [] needle = "out" -> value \in {"OUT_OF_STOCK", "sold out"}
      [] OTHER -> FALSE

\* ProductConverter.processCategories and the default ['Products']
Categories(raw) == IF raw.categories # <<>> THEN raw.categories ELSE <<"Products">>

\* ProductConverter.determineGenericAvailability: of the fields it looks at
\* the records carry availability and quantity
determineGenericAvailability(raw) ==
    IF raw.availability # <<>> /\ (includes(raw.availability[1], "stock")
                                   \/ includes(raw.availability[1], "available"))
    THEN "IN_STOCK"
    ELSE IF raw.availability # <<>> /\ includes(raw.availability[1], "out")
    THEN "OUT_OF_STOCK"
    ELSE IF raw.quantity # <<>>
    THEN (IF raw.quantity[1] > 0 THEN "IN_STOCK" ELSE "OUT_OF_STOCK")
    ELSE "IN_STOCK"

\* ProductConverter.convertVertexProduct, the fields of the record it
\* builds: the price is read from vertexProduct.price, which no record
\* of RawRecords carries
VertexCommerceProduct(raw, clock) ==
    [id |-> IF raw.id # <<>> THEN SourceId(raw.id[1])
            ELSE SynthesizedId("vertex-product-", clock),
     title |-> IF raw.title # <<>> THEN raw.title[1] ELSE "Untitled Product",
     categories |-> Categories(raw),
     availability |-> IF raw.availability # <<>> THEN raw.availability[1]
                      ELSE "IN_STOCK",
     price |-> <<>>]

\* ProductConverter.convertGenericProduct, the fields of the record it builds
convertGenericProduct(raw, clock) ==
    [id |-> IF raw.id # <<>> THEN SourceId(raw.id[1])
            ELSE SynthesizedId("generic-product-", clock),
     title |-> IF raw.title # <<>> THEN raw.title[1]
               ELSE IF raw.name # <<>> THEN raw.name[1]
               ELSE "Untitled Product",
     categories |-> Categories(raw),
     availability |-> determineGenericAvailability(raw),
     price |-> raw.cost]

\* StreamingJSONParser.parseWithFallback: the array it returns for a file of
\* the given shape holding the given records
parseWithFallback(shape, records) == records

\* UniversalConverter.detectFormatAndExtractProducts, the format it detects
detectFormatAndExtractProducts(jsonData, formatHint) ==
    LET hinted == IF formatHint # "auto" THEN formatHint ELSE "generic"
    IN CASE jsonData.shape = "array" ->
              IF formatHint = "auto" /\ Len(jsonData.products) > 0
              THEN (IF jsonData.products[1].title # <<>>
                       \/ jsonData.products[1].categories # <<>>
                    THEN "vertex" ELSE "generic")
              ELSE hinted
         [] jsonData.shape = "products" ->
              IF formatHint = "auto" THEN "vertex" ELSE hinted
         [] OTHER -> hinted

\* processBatchWithRetry, "Convert based on detected format"
ConvertByFormat(format, raw, clock) ==
    IF format = "vertex" THEN VertexCommerceProduct(raw, clock)
    ELSE convertGenericProduct(raw, clock)

\* latest value of Date.now() followed
MaxClock == 2

(***************************************************************************)
(* The state after the UniversalConverter is constructed, for every        *)
(* configuration, input directory and checkpoint file a run can find.      *)
(***************************************************************************)
CheckpointFiles ==
    {[state |-> "absent", files |-> {}], [state |-> "corrupt", files |-> {}]}
    \cup [state : {"ok"}, files : SUBSET Files]

\* The configurations of a run: CONFIG.PROCESSING.BATCH_SIZE,
\* MAX_LINES_PER_SHARD, CHECKPOINT_INTERVAL and CONCURRENCY_LIMIT, scaled to
\* the files of the model, and whether require('p-queue') succeeded.  The
\* limit is read only when the queue exists.
BatchSizes == {1, 2}
ShardSizes == {1, 2}
Intervals == {2}
ConcurrencyLimits == {1, 2}

Configs ==
    {c \in [batchSize : BatchSizes, maxLines : ShardSizes, interval : Intervals,
            queue : BOOLEAN, limit : ConcurrencyLimits] :
        ~c.queue => c.limit = 1}

\* the EmbeddingGenerator and the module's regex objects as loaded
InitEnrichment ==
    /\ reLastIndex = [r \in PatternNames |-> 0]
    /\ enrichLog = <<>>

\* processAnyJSONFile not called
InitConversion ==
    /\ convFile = [shape |-> "array", hint |-> "auto"]
    /\ convPc = "idle"
    /\ parsed = <<>>
    /\ convFormat = "none"
    /\ now = 0
    /\ emitted = <<>>

\* processBatchWithRetry not called
InitRetrying ==
    /\ retryBatch = <<>>
    /\ retryFormat = "generic"
    /\ retryIdx = 0
    /\ retryAttempts = 0
    /\ retryPc = "idle"
    /\ retryResults = <<>>
    /\ retryLog = <<>>

\* a parser or the detection that has not been called or has not settled
Pending == [state |-> "pending", products |-> <<>>, format |-> "none"]

\* parseJSONFile not called
InitParsing ==
    /\ parseFile = [shape |-> "array", products |-> <<>>]
    /\ parseHint = "auto"
    /\ streamed = Pending
    /\ fallback = Pending
    /\ detected = Pending

\* extractKeywords not called
InitKeywords ==
    /\ kwText = <<>>
    /\ kwContext = "general"
    /\ kwResult = [done |-> FALSE, added |-> <<>>, weight |-> <<>>]

\* no output stream created
InitStreams ==
    /\ outMode = "default"
    /\ outTotal = 0
    /\ outBuffered = 0
    /\ outOnDisk = 0
    /\ outPc = "idle"

\* the input directory not read
InitPaths ==
    /\ listing = {}
    /\ jsonFiles = {}
    /\ outputPaths = <<>>
    /\ pathPc = "idle"

\* the embedding toggles as the constants set them, no product given
InitCounting ==
    /\ embCfg = [dense |-> TRUE, sparse |-> TRUE]
    /\ embInput = [title |-> <<>>, categories |-> <<>>, description |-> <<>>]
    /\ embResult = [state |-> "pending", attached |-> {}, embedding_count |-> 0]

\* the converter as constructed, nothing of a run started
InitPipeline ==
    /\ ckMem = {}
    /\ runPc = "start"
    /\ resuming = FALSE
    /\ toProcess = <<>>
    /\ pc = [f \in Files |-> "idle"]
    /\ len = [f \in Files |-> 0]
    /\ input = [f \in Files |-> <<>>]
    /\ pos = [f \in Files |-> 0]
    /\ processedCount = [f \in Files |-> 0]
    /\ attempts = [f \in Files |-> 0]
    /\ shards = [f \in Files |-> <<>>]
    /\ converted = [f \in Files |-> <<>>]
    /\ err = [f \in Files |-> ""]
    /\ currentShard = [f \in Files |-> 0]
    /\ opened = [f \in Files |-> <<>>]
    /\ stats = [f \in Files |-> NoStats]
    /\ combined = <<>>
    /\ report = NoReport
    /\ monitor = FALSE
    /\ saves = 0
    /\ runProcessed = 0
    /\ ckDeleted = FALSE
    /\ completionOrder = <<>>

Init ==
    /\ cfg \in Configs
    /\ dir \in {"missing", "empty", "ok"}
    /\ ckFile \in CheckpointFiles
    /\ ckStart = ckFile
    /\ InitPipeline
    /\ InitEnrichment
    /\ InitConversion
    /\ InitRetrying
    /\ InitParsing
    /\ InitKeywords
    /\ InitStreams
    /\ InitPaths
    /\ InitCounting

InToProcess(f) == \E i \in 1..Len(toProcess) : toProcess[i] = f

Active(f) == pc[f] \in {"parsed", "batching", "retrywait", "throwing"}

\* Concurrency with the queue built without its concurrency option, so that
\* it starts every task at once
Concurrency_Unbounded == Len(DiscoveredFiles)

\* number of tasks the queue (or the sequential loop) lets run at once
Concurrency == IF cfg.queue THEN cfg.limit ELSE 1

(***************************************************************************)
(* processAllDataFiles up to the fan-out: startMonitoring, loadCheckpoint, *)
(* discoverJSONFiles, the filter.                                          *)
(***************************************************************************)
StartRun ==
    /\ runPc = "start"
    /\ dir = "ok"
    /\ LET l == loadCheckpoint(ckFile, ckMem)
           todo == FilesToProcess(l.resuming, l.files)
       IN /\ resuming' = l.resuming
          /\ ckMem' = l.files
          /\ toProcess' = todo
          /\ pc' = [f \in Files |->
                      IF \E i \in 1..Len(todo) : todo[i] = f
                      THEN "queued" ELSE "skipped"]
    /\ monitor' = TRUE
    /\ runPc' = "running"
    /\ UNCHANGED enrichVars
    /\ UNCHANGED <<convVars, retryVars, parseVars, keywordVars, streamVars, pathVars, countVars>>
    /\ UNCHANGED shardVars
    /\ UNCHANGED <<cfg, dir, combined, report, ckFile, saves, ckDeleted, ckStart, stats,
                   runProcessed, completionOrder, len, input, pos,
                   processedCount, attempts, shards, converted, err>>

\* AbortRun without the finally block: the sampler started on entry is left
\* running
AbortRun_SamplerLeft ==
    /\ runPc = "start"
    /\ dir # "ok"
    /\ LET l == loadCheckpoint(ckFile, ckMem)
       IN /\ resuming' = l.resuming
          /\ ckMem' = l.files
    /\ monitor' = TRUE
    /\ runPc' = "aborted"
    /\ UNCHANGED <<enrichVars, shardVars, convVars, retryVars, parseVars, keywordVars, streamVars, pathVars, countVars>>
    /\ UNCHANGED <<cfg, dir, toProcess, combined, report, ckFile, saves, ckDeleted, ckStart,
                   stats, runProcessed, completionOrder, fileVars>>

\* discoverJSONFiles throws (directory missing, or no JSON file in it): the
\* catch block rethrows and the finally block stops the sampler.
AbortRun ==
    /\ runPc = "start"
    /\ dir # "ok"
    /\ LET l == loadCheckpoint(ckFile, ckMem)
       IN /\ resuming' = l.resuming
          /\ ckMem' = l.files
    /\ monitor' = FALSE
    /\ runPc' = "aborted"
    /\ UNCHANGED enrichVars
    /\ UNCHANGED <<convVars, retryVars, parseVars, keywordVars, streamVars, pathVars, countVars>>
    /\ UNCHANGED shardVars
    /\ UNCHANGED <<cfg, dir, toProcess, combined, report, ckFile, saves, ckDeleted, ckStart,
                   stats, runProcessed, completionOrder, fileVars>>

(***************************************************************************)
(* processFileWithTracking(f) is started by the queue (at most Concurrency *)
(* tasks at a time, in the order they were added) and runs up to the await *)
(* of parseJSONFile: the file is unparsable or holds n raw products.       *)
(***************************************************************************)
StartFile(f) ==
    /\ runPc = "running"
    /\ pc[f] = "queued"
    /\ \A i \in 1..Len(toProcess) :
          toProcess[i] = f => \A k \in 1..(i - 1) : pc[toProcess[k]] # "queued"
    /\ Cardinality({g \in Files : Active(g)}) < Concurrency
    /\ \/ /\ pc' = [pc EXCEPT ![f] = "throwing"]
          /\ err' = [err EXCEPT ![f] = "ParseError"]
          /\ len' = len
       \/ \E n \in 0..MaxRecords :
             /\ pc' = [pc EXCEPT ![f] = "parsed"]
             /\ len' = [len EXCEPT ![f] = n]
             /\ err' = err
    /\ UNCHANGED enrichVars
    /\ UNCHANGED <<convVars, retryVars, parseVars, keywordVars, streamVars, pathVars, countVars>>
    /\ UNCHANGED shardVars
    /\ UNCHANGED <<input, pos, processedCount, attempts, shards, converted,
                   runVars, ckVars, stats, runProcessed, completionOrder>>

\* processAnyJSONFile after the parse, processBatchesWithSharding up to its
\* loop: the first output file is created.
OpenOutput(f) ==
    /\ pc[f] = "parsed"
    /\ shards' = [shards EXCEPT ![f] = << <<>> >>]
    /\ currentShard' = [currentShard EXCEPT ![f] = 0]
    /\ opened' = [opened EXCEPT ![f] =
                    <<IF ShouldShard(len[f], cfg.maxLines)
                      THEN getShardPath(0) ELSE OutputPath>>]
    /\ pc' = [pc EXCEPT ![f] = "batching"]
    /\ UNCHANGED enrichVars
    /\ UNCHANGED <<convVars, retryVars, parseVars, keywordVars, streamVars, pathVars, countVars>>
    /\ UNCHANGED <<len, input, pos, processedCount, attempts, converted, err,
                   runVars, ckVars, stats, runProcessed, completionOrder>>

(***************************************************************************)
(* One iteration of the batch loop of processBatchesWithSharding in which  *)
(* processBatchWithRetry returns: the results are written, processedCount  *)
(* advances by batch.length and the checkpoint is saved when due.          *)
(***************************************************************************)
ProcessBatch(f) ==
    /\ pc[f] = "batching"
    /\ pos[f] < len[f]
    /\ LET n == Min(cfg.batchSize, len[f] - pos[f])
       IN \E ks \in [1..n -> RawKinds \ {"nullrec"}], step \in EnrichSteps :
            LET results == processBatchWithRetry(f, pos[f], ks, step)
                count == processedCount[f] + n
            IN /\ input' = [input EXCEPT ![f] = @ \o ks]
               /\ shards' = [shards EXCEPT ![f] =
                     WriteResults(@, results,
                                  ShouldShard(len[f], cfg.maxLines), cfg.maxLines)]
               /\ LET o == OpenShards([cur |-> currentShard[f], paths |-> opened[f]],
                                       shards[f], results,
                                       ShouldShard(len[f], cfg.maxLines), cfg.maxLines)
                  IN /\ currentShard' = [currentShard EXCEPT ![f] = o.cur]
                     /\ opened' = [opened EXCEPT ![f] = o.paths]
               /\ converted' = [converted EXCEPT ![f] = @ \o results]
               /\ processedCount' = [processedCount EXCEPT ![f] = count]
               /\ runProcessed' = runProcessed + n
               /\ IF CheckpointDue(count, cfg.interval)
                  THEN /\ ckFile' = saveCheckpoint(ckFile, ckMem)
                       /\ saves' = saves + 1
                  ELSE UNCHANGED <<ckFile, saves>>
    /\ pos' = [pos EXCEPT ![f] = @ + cfg.batchSize]
    /\ UNCHANGED enrichVars
    /\ UNCHANGED <<convVars, retryVars, parseVars, keywordVars, streamVars, pathVars, countVars>>
    /\ UNCHANGED <<pc, len, attempts, err, runVars, ckMem, ckDeleted, ckStart, stats,
                   completionOrder>>

(***************************************************************************)
(* processBatchWithRetry meets a record on which the converter throws      *)
(* (the records before it in the batch were converted into the local       *)
(* results array): first attempt, then the retry delay.                    *)
(***************************************************************************)
RecordThrows(f) ==
    /\ pc[f] = "batching"
    /\ pos[f] < len[f]
    /\ LET n == Min(cfg.batchSize, len[f] - pos[f])
       IN \E j \in 1..n :
            \E pre \in [1..(j - 1) -> RawKinds \ {"nullrec"}] :
               input' = [input EXCEPT ![f] = @ \o pre \o <<"nullrec">>]
    /\ attempts' = [attempts EXCEPT ![f] = 1]
    /\ pc' = [pc EXCEPT ![f] = IF 1 >= RETRY_ATTEMPTS THEN "throwing" ELSE "retrywait"]
    /\ err' = [err EXCEPT ![f] = IF 1 >= RETRY_ATTEMPTS THEN "TypeError" ELSE @]
    /\ UNCHANGED enrichVars
    /\ UNCHANGED <<convVars, retryVars, parseVars, keywordVars, streamVars, pathVars, countVars>>
    /\ UNCHANGED shardVars
    /\ UNCHANGED <<len, pos, processedCount, shards, converted, runVars, ckVars,
                   stats, runProcessed, completionOrder>>

\* After the delay the record is attempted again and the converter throws
\* again.  On the last attempt the catch block evaluates product.id on the
\* null product: the TypeError leaves processBatchWithRetry, the finally
\* block of processBatchesWithSharding ends the stream.
RetryRecord(f) ==
    /\ pc[f] = "retrywait"
    /\ attempts' = [attempts EXCEPT ![f] = @ + 1]
    /\ IF attempts[f] + 1 >= RETRY_ATTEMPTS
       THEN /\ pc' = [pc EXCEPT ![f] = "throwing"]
            /\ err' = [err EXCEPT ![f] = "TypeError"]
       ELSE UNCHANGED <<pc, err>>
    /\ UNCHANGED enrichVars
    /\ UNCHANGED <<convVars, retryVars, parseVars, keywordVars, streamVars, pathVars, countVars>>
    /\ UNCHANGED shardVars
    /\ UNCHANGED <<len, input, pos, processedCount, shards, converted, runVars,
                   ckVars, stats, runProcessed, completionOrder>>

\* getActualOutputPath
ActualOutputPath(f) ==
    IF ShouldShard(len[f], cfg.maxLines) THEN "shard_000" ELSE "single"

\* processFileWithTracking, the statistics of a file that succeeded
SuccessStats(f) ==
    [recorded |-> TRUE, processed |-> TRUE,
     totalProducts |-> Len(converted[f]),
     withEmbeddings |-> countProductsWithEmbeddings(converted[f]),
     error |-> "", outputPath |-> ActualOutputPath(f)]

\* FailureStats reading a property the error does not have
FailureStats_NoMessage(f) ==
    [recorded |-> TRUE, processed |-> FALSE, totalProducts |-> 0,
     withEmbeddings |-> 0, error |-> "", outputPath |-> "null"]

\* processFileWithTracking, the statistics of a file that failed
FailureStats(f) ==
    [recorded |-> TRUE, processed |-> FALSE, totalProducts |-> 0,
     withEmbeddings |-> 0, error |-> err[f], outputPath |-> "null"]

\* CompleteFile writing back a copy of the completed set taken when the
\* file's processing started, with the file added to it
CompleteFile_StaleSet(f) ==
    /\ pc[f] = "batching"
    /\ pos[f] >= len[f]
    /\ stats' = [stats EXCEPT ![f] = SuccessStats(f)]
    /\ ckMem' = (IF resuming THEN ckStart.files ELSE {}) \cup {f}
    /\ pc' = [pc EXCEPT ![f] = "done"]
    /\ completionOrder' = Append(completionOrder, f)
    /\ UNCHANGED <<enrichVars, shardVars, convVars, retryVars, parseVars, keywordVars, streamVars, pathVars, countVars>>
    /\ UNCHANGED <<len, input, pos, processedCount, attempts, shards, converted,
                   err, runVars, ckFile, saves, ckDeleted, ckStart, runProcessed>>

(***************************************************************************)
(* The batch loop is over: the stream is ended, processFileWithTracking    *)
(* records the file's statistics and adds it to the completed set.         *)
(***************************************************************************)
CompleteFile(f) ==
    /\ pc[f] = "batching"
    /\ pos[f] >= len[f]
    /\ stats' = [stats EXCEPT ![f] = SuccessStats(f)]
    /\ ckMem' = ckMem \cup {f}
    /\ pc' = [pc EXCEPT ![f] = "done"]
    /\ completionOrder' = Append(completionOrder, f)
    /\ UNCHANGED enrichVars
    /\ UNCHANGED <<convVars, retryVars, parseVars, keywordVars, streamVars, pathVars, countVars>>
    /\ UNCHANGED shardVars
    /\ UNCHANGED <<len, input, pos, processedCount, attempts, shards, converted,
                   err, runVars, ckFile, saves, ckDeleted, ckStart, runProcessed>>

\* the catch block of processFileWithTracking
RecordFailure(f) ==
    /\ pc[f] = "throwing"
    /\ stats' = [stats EXCEPT ![f] = FailureStats(f)]
    /\ pc' = [pc EXCEPT ![f] = "failed"]
    /\ UNCHANGED enrichVars
    /\ UNCHANGED <<convVars, retryVars, parseVars, keywordVars, streamVars, pathVars, countVars>>
    /\ UNCHANGED shardVars
    /\ UNCHANGED <<len, input, pos, processedCount, attempts, shards, converted,
                   err, runVars, ckVars, runProcessed, completionOrder>>

\* (part / whole * 100).toFixed(2) + '%': the text of a rate, by the number
\* it shows in hundredths of a percent and the count of its decimals
PercentFixed2(part, whole) ==
    [hundredths |-> (2 * 10000 * part + whole) \div (2 * whole), decimals |-> 2]

\* the literals '0.00%' and '0%'
ZeroPercentFixed2 == [hundredths |-> 0, decimals |-> 2]

ZeroPercent == [hundredths |-> 0, decimals |-> 0]

\* generateDynamicFinalReport: product_statistics.embedding_success_rate
embedding_success_rate(total, withEmbeddings) ==
    IF total > 0 THEN PercentFixed2(withEmbeddings, total) ELSE ZeroPercentFixed2

\* validateReportAccuracy: the rate it recomputes from the report's counts
expectedEmbeddingRate(total_products, products_with_embeddings) ==
    IF total_products > 0
    THEN PercentFixed2(products_with_embeddings, total_products)
    ELSE ZeroPercent

\* validateReportAccuracy: the errors it pushes and isValid
validateReportAccuracy(rep, st) ==
    LET errors ==
          (IF rep.total_files_discovered = 0 THEN {"no files discovered"} ELSE {})
          \cup (IF rep.successfully_processed = 0 /\ rep.total_files_discovered > 0
                THEN {"no files successfully processed"} ELSE {})
          \cup (IF rep.embedding_success_rate
                      # expectedEmbeddingRate(rep.total_products,
                                              rep.products_with_embeddings)
                THEN {"embedding success rate calculation mismatch"} ELSE {})
          \cup (IF \E f \in Files : st[f].recorded
                                     /\ st[f].withEmbeddings > st[f].totalProducts
                THEN {"embedding count exceeds total products"} ELSE {})
    IN [isValid |-> errors = {}, errors |-> errors]

\* FinalReport counting one product more for every discovered file that has
\* no statistics of this run, as if a counter saved with the checkpoint were
\* restored for it
FinalReport_Restored(st) ==
    LET successful == {f \in Files : st[f].recorded /\ st[f].processed}
        inOrder == SelectSeq(DiscoveredFiles, LAMBDA f : f \in successful)
        total == SeqSum([i \in 1..Len(inOrder) |-> st[inOrder[i]].totalProducts])
                    + Cardinality({f \in Files : ~st[f].recorded})
        withEmb == SeqSum([i \in 1..Len(inOrder) |-> st[inOrder[i]].withEmbeddings])
        rep == [written |-> TRUE,
                total_files_discovered |-> Len(DiscoveredFiles),
                successfully_processed |-> Cardinality(successful),
                failed_to_process |->
                    Cardinality({f \in Files : st[f].recorded} \ successful),
                total_products |-> total,
                products_with_embeddings |-> withEmb,
                embedding_success_rate |-> embedding_success_rate(total, withEmb),
                validation |-> [isValid |-> TRUE, errors |-> {}]]
    IN [rep EXCEPT !.validation = validateReportAccuracy(rep, st)]

\* generateDynamicFinalReport
FinalReport(st) ==
    LET recordedFiles == {f \in Files : st[f].recorded}
        successful == {f \in recordedFiles : st[f].processed}
        inOrder == SelectSeq(DiscoveredFiles, LAMBDA f : f \in successful)
        total == SeqSum([i \in 1..Len(inOrder) |-> st[inOrder[i]].totalProducts])
        withEmb == SeqSum([i \in 1..Len(inOrder) |-> st[inOrder[i]].withEmbeddings])
        rep == [written |-> TRUE,
                total_files_discovered |-> Len(DiscoveredFiles),
                successfully_processed |-> Cardinality(successful),
                failed_to_process |-> Cardinality(recordedFiles \ successful),
                total_products |-> total,
                products_with_embeddings |-> withEmb,
                embedding_success_rate |-> embedding_success_rate(total, withEmb),
                validation |-> [isValid |-> TRUE, errors |-> {}]]
    IN [rep EXCEPT !.validation = validateReportAccuracy(rep, st)]

(***************************************************************************)
(* processAllDataFiles once every task has settled: the results are        *)
(* collected, the combined output is written when there is any product,    *)
(* the checkpoint file is removed when it exists, the report is written.   *)
(***************************************************************************)
FinishRun ==
    /\ runPc = "running"
    /\ \A f \in Files : pc[f] \in {"skipped", "done", "failed"}
    /\ LET all == CollectResults(toProcess, [f \in Files |-> pc[f] = "done"], converted)
       IN combined' = IF Len(all) > 0
                      THEN writeCombinedOutput(all, cfg.maxLines)
                      ELSE combined
    /\ IF CHECKPOINT_ENABLED /\ ckFile.state # "absent"
       THEN /\ ckFile' = [state |-> "absent", files |-> {}]
            /\ ckDeleted' = TRUE
       ELSE UNCHANGED <<ckFile, ckDeleted>>
    /\ report' = FinalReport(stats)
    /\ monitor' = FALSE
    /\ runPc' = "finished"
    /\ UNCHANGED enrichVars
    /\ UNCHANGED <<convVars, retryVars, parseVars, keywordVars, streamVars, pathVars, countVars>>
    /\ UNCHANGED shardVars
    /\ UNCHANGED <<cfg, dir, resuming, toProcess, ckMem, saves, ckStart, stats,
                   runProcessed, completionOrder, fileVars>>

Next ==
    \/ StartRun
    \/ AbortRun
    \/ \E f \in Files : StartFile(f)
    \/ \E f \in Files : OpenOutput(f)
    \/ \E f \in Files : ProcessBatch(f)
    \/ \E f \in Files : RecordThrows(f)
    \/ \E f \in Files : RetryRecord(f)
    \/ \E f \in Files : CompleteFile(f)
    \/ \E f \in Files : RecordFailure(f)
    \/ FinishRun

Spec == Init /\ [][Next]_vars

(***************************************************************************)
(* One call of EmbeddingGenerator.addEmbeddingsToProduct on a canonical    *)
(* record, none of its steps raising: what it computes for the record and  *)
(* the state it leaves in the regex objects.                               *)
(***************************************************************************)
Enrich(p) ==
    /\ Len(enrichLog) < MaxEnrichCalls
    /\ LET product == SampleProducts[p]
           text == extractSearchableText(product)
           dense == generateDenseEmbedding(text)
           sparse == generateSparseEmbedding(text, product,
                                             extractSearchPatterns(reLastIndex))
       IN /\ enrichLog' = Append(enrichLog,
                [product |-> p, dense |-> dense, sparse |-> sparse.keywords,
                 score |-> calculateSearchReadinessScore(product, TRUE,
                                                         sparse.keywords)])
          /\ reLastIndex' = sparse.st
    /\ UNCHANGED <<fileVars, runVars, ckVars, stats, runProcessed, completionOrder>>
    /\ UNCHANGED shardVars
    /\ UNCHANGED <<convVars, retryVars, parseVars, keywordVars, streamVars, pathVars, countVars>>

\* the generator called on its own, no run started
InitEnrich ==
    /\ cfg = [batchSize |-> 1, maxLines |-> 1, interval |-> 2, queue |-> FALSE,
              limit |-> 1]
    /\ dir = "ok"
    /\ ckFile = [state |-> "absent", files |-> {}]
    /\ ckStart = ckFile
    /\ InitPipeline
    /\ InitEnrichment
    /\ InitConversion
    /\ InitRetrying
    /\ InitParsing
    /\ InitKeywords
    /\ InitStreams
    /\ InitPaths
    /\ InitCounting

NextEnrich == \E p \in DOMAIN SampleProducts : Enrich(p)

SpecEnrich == InitEnrich /\ [][NextEnrich]_vars

(***************************************************************************)
(* processAnyJSONFile on one file, as the command line's custom mode and   *)
(* processFileWithTracking call it, followed over the first two records of *)
(* the file.  The parser returns the products; the format is detected from *)
(* the wrapper { products } and the hint.                                  *)
(***************************************************************************)
ParseAndDetect ==
    /\ convPc = "start"
    /\ \E first \in RawRecords :
          parsed' = parseWithFallback(convFile.shape, <<first>>)
    /\ convFormat' = detectFormatAndExtractProducts(
                        [shape |-> "products", products |-> parsed'], convFile.hint)
    /\ convPc' = "detected"
    /\ UNCHANGED <<convFile, now, emitted>>
    /\ UNCHANGED <<fileVars, runVars, ckVars, stats, runProcessed, completionOrder>>
    /\ UNCHANGED <<enrichVars, shardVars, retryVars, parseVars, keywordVars, streamVars, pathVars, countVars>>

\* processBatchWithRetry converts the first record of the file
NormalizeFirst ==
    /\ convPc = "detected"
    /\ emitted' = <<[raw |-> parsed[1],
                     out |-> ConvertByFormat(convFormat, parsed[1], now)]>>
    /\ convPc' = "first"
    /\ UNCHANGED <<convFile, parsed, convFormat, now>>
    /\ UNCHANGED <<fileVars, runVars, ckVars, stats, runProcessed, completionOrder>>
    /\ UNCHANGED <<enrichVars, shardVars, retryVars, parseVars, keywordVars, streamVars, pathVars, countVars>>

\* and the record after it, when the file holds an array
NormalizeSecond ==
    /\ convPc = "first"
    /\ convFile.shape # "object"
    /\ \E raw \in RawRecords :
          /\ parsed' = Append(parsed, raw)
          /\ emitted' = Append(emitted,
                           [raw |-> raw, out |-> ConvertByFormat(convFormat, raw, now)])
    /\ convPc' = "second"
    /\ UNCHANGED <<convFile, convFormat, now>>
    /\ UNCHANGED <<fileVars, runVars, ckVars, stats, runProcessed, completionOrder>>
    /\ UNCHANGED <<enrichVars, shardVars, retryVars, parseVars, keywordVars, streamVars, pathVars, countVars>>

\* a millisecond passes
Tick ==
    /\ convPc \in {"detected", "first"}
    /\ now < MaxClock
    /\ now' = now + 1
    /\ UNCHANGED <<convFile, convPc, parsed, convFormat, emitted>>
    /\ UNCHANGED <<fileVars, runVars, ckVars, stats, runProcessed, completionOrder>>
    /\ UNCHANGED <<enrichVars, shardVars, retryVars, parseVars, keywordVars, streamVars, pathVars, countVars>>

\* processAnyJSONFile called on a file of any shape with any hint
InitConvert ==
    /\ cfg = [batchSize |-> 1, maxLines |-> 1, interval |-> 2, queue |-> FALSE,
              limit |-> 1]
    /\ dir = "ok"
    /\ ckFile = [state |-> "absent", files |-> {}]
    /\ ckStart = ckFile
    /\ InitPipeline
    /\ InitEnrichment
    /\ InitRetrying
    /\ InitParsing
    /\ InitKeywords
    /\ InitStreams
    /\ InitPaths
    /\ InitCounting
    /\ convFile \in [shape : FileShapes, hint : FormatHints]
    /\ convPc = "start"
    /\ parsed = <<>>
    /\ convFormat = "none"
    /\ now = 0
    /\ emitted = <<>>

NextConvert ==
    \/ ParseAndDetect
    \/ NormalizeFirst
    \/ NormalizeSecond
    \/ Tick

SpecConvert == InitConvert /\ [][NextConvert]_vars

(***************************************************************************)
(* processBatchWithRetry on one batch, attempt by attempt.  The outcome of *)
(* an attempt is the converter's on the record: a product, null, or an     *)
(* exception.  The format 'bpn' dispatches to convertBPNProduct, which     *)
(* ProductConverter does not define, so that every attempt throws; a       *)
(* record that is null makes the converter's own catch handler throw.      *)
(***************************************************************************)
RetryFormats == {"vertex", "generic", "bpn"}

MaxBatch == 2

ConvertOutcome(format, kind) ==
    IF format = "bpn" \/ kind = "nullrec" THEN "throws"
    ELSE IF kind = "noprod" THEN "null"
    ELSE "product"

\* the loop variables of the for statement on reaching the next record
NextProduct == /\ retryIdx' = retryIdx + 1
               /\ retryAttempts' = 0

\* the while test of the record product holds
AtWhile ==
    /\ retryPc = "loop"
    /\ retryIdx <= Len(retryBatch)
    /\ retryAttempts < RETRY_ATTEMPTS

LogAttempt(outcome) ==
    retryLog' = Append(retryLog, [rec |-> retryIdx, ev |-> "attempt", outcome |-> outcome])

\* an attempt that yields a product: it is pushed with its embeddings and
\* success ends the while loop
AttemptSucceeds ==
    /\ AtWhile
    /\ ConvertOutcome(retryFormat, retryBatch[retryIdx]) = "product"
    /\ LogAttempt("product")
    /\ retryResults' = Append(retryResults, "product")
    /\ NextProduct
    /\ UNCHANGED <<retryBatch, retryFormat, retryPc>>
    /\ UNCHANGED <<fileVars, runVars, ckVars, stats, runProcessed, completionOrder>>
    /\ UNCHANGED <<enrichVars, shardVars, convVars, parseVars, keywordVars, streamVars, pathVars, countVars>>

\* an attempt on which the converter returns null: nothing is pushed, no
\* exception is raised, and the while test is evaluated again
AttemptNoProduct ==
    /\ AtWhile
    /\ ConvertOutcome(retryFormat, retryBatch[retryIdx]) = "null"
    /\ LogAttempt("null")
    /\ IF retryAttempts + 1 < RETRY_ATTEMPTS
       THEN /\ retryAttempts' = retryAttempts + 1
            /\ UNCHANGED retryIdx
       ELSE NextProduct
    /\ UNCHANGED <<retryBatch, retryFormat, retryPc, retryResults>>
    /\ UNCHANGED <<fileVars, runVars, ckVars, stats, runProcessed, completionOrder>>
    /\ UNCHANGED <<enrichVars, shardVars, convVars, parseVars, keywordVars, streamVars, pathVars, countVars>>

\* an attempt that throws, and the catch block: before the last attempt it
\* awaits the delay; on the last one it logs product.id (a TypeError when
\* product is null, which leaves the function) and pushes null
AttemptThrows ==
    /\ AtWhile
    /\ ConvertOutcome(retryFormat, retryBatch[retryIdx]) = "throws"
    /\ LogAttempt("throws")
    /\ IF retryAttempts + 1 >= RETRY_ATTEMPTS
       THEN IF retryBatch[retryIdx] = "nullrec"
            THEN /\ retryPc' = "threw"
                 /\ retryAttempts' = retryAttempts + 1
                 /\ UNCHANGED <<retryIdx, retryResults>>
            ELSE /\ retryResults' = Append(retryResults, "null")
                 /\ NextProduct
                 /\ UNCHANGED retryPc
       ELSE /\ retryPc' = "delay"
            /\ retryAttempts' = retryAttempts + 1
            /\ UNCHANGED <<retryIdx, retryResults>>
    /\ UNCHANGED <<retryBatch, retryFormat>>
    /\ UNCHANGED <<fileVars, runVars, ckVars, stats, runProcessed, completionOrder>>
    /\ UNCHANGED <<enrichVars, shardVars, convVars, parseVars, keywordVars, streamVars, pathVars, countVars>>

\* the timer of RETRY_DELAY_MS fires
RetryDelay ==
    /\ retryPc = "delay"
    /\ retryPc' = "loop"
    /\ retryLog' = Append(retryLog, [rec |-> retryIdx, ev |-> "delay", outcome |-> "none"])
    /\ UNCHANGED <<retryBatch, retryFormat, retryIdx, retryAttempts, retryResults>>
    /\ UNCHANGED <<fileVars, runVars, ckVars, stats, runProcessed, completionOrder>>
    /\ UNCHANGED <<enrichVars, shardVars, convVars, parseVars, keywordVars, streamVars, pathVars, countVars>>

\* the for statement is over: return results
ReturnResults ==
    /\ retryPc = "loop"
    /\ retryIdx > Len(retryBatch)
    /\ retryPc' = "returned"
    /\ UNCHANGED <<retryBatch, retryFormat, retryIdx, retryAttempts, retryResults,
                   retryLog>>
    /\ UNCHANGED <<fileVars, runVars, ckVars, stats, runProcessed, completionOrder>>
    /\ UNCHANGED <<enrichVars, shardVars, convVars, parseVars, keywordVars, streamVars, pathVars, countVars>>

\* processBatchWithRetry called on a batch of any records with any format
InitRetry ==
    /\ cfg = [batchSize |-> 1, maxLines |-> 1, interval |-> 2, queue |-> FALSE,
              limit |-> 1]
    /\ dir = "ok"
    /\ ckFile = [state |-> "absent", files |-> {}]
    /\ ckStart = ckFile
    /\ InitPipeline
    /\ InitEnrichment
    /\ InitConversion
    /\ InitParsing
    /\ InitKeywords
    /\ InitStreams
    /\ InitPaths
    /\ InitCounting
    /\ \E n \in 1..MaxBatch : retryBatch \in [1..n -> RawKinds]
    /\ retryFormat \in RetryFormats
    /\ retryIdx = 1
    /\ retryAttempts = 0
    /\ retryPc = "loop"
    /\ retryResults = <<>>
    /\ retryLog = <<>>

NextRetry ==
    \/ AttemptSucceeds
    \/ AttemptNoProduct
    \/ AttemptThrows
    \/ RetryDelay
    \/ ReturnResults

SpecRetry == InitRetry /\ [][NextRetry]_vars

(***************************************************************************)
(* StreamingJSONParser on one file and format detection on its top-level   *)
(* value.  An element of an array is an object, of which the title and the *)
(* categories are kept, or null.  parseWithStreaming pipes the file into   *)
(* StreamArray, which emits the elements of a top-level array and raises   *)
(* 'Top-level object should be an array.' on any other top-level value;    *)
(* the argument 'products.*' it is given for a wrapper of products is not  *)
(* a path filter of StreamArray.                                           *)
(***************************************************************************)
MaxElements == 2

JSONObjects ==
    [kind : {"object"}, title : {<<>>, <<"Gadget">>}, categories : {<<>>, <<"Tools">>}]

JSONNull == [kind |-> "null", title |-> <<>>, categories |-> <<>>]

JSONElements == JSONObjects \cup {JSONNull}

JSONArrays == UNION {[1..n -> JSONElements] : n \in 0..MaxElements}

\* the top-level values: an array, a wrapper of an array, a single object
\* (kept as the one product parseWithFallback makes of it)
TopLevelValues ==
    [shape : FileShapes \ {"object"}, products : JSONArrays]
       \cup [shape : {"object"}, products : {<<o>> : o \in JSONObjects}]

\* the hints of processAnyJSONFile's contract
DetectHints == {"auto", "vertex", "generic", "bpn"}

Resolved(products) == [state |-> "resolved", products |-> products, format |-> "none"]
Rejected == [state |-> "rejected", products |-> <<>>, format |-> "none"]

parseWithStreaming(jsonData) ==
    IF jsonData.shape = "array" THEN Resolved(jsonData.products) ELSE Rejected

\* parseJSONFile with stream-json loaded and ENABLE_STREAMING set
ParseStreaming ==
    /\ streamed = Pending
    /\ streamed' = parseWithStreaming(parseFile)
    /\ UNCHANGED <<parseFile, parseHint, fallback, detected>>
    /\ UNCHANGED <<fileVars, runVars, ckVars, stats, runProcessed, completionOrder>>
    /\ UNCHANGED <<enrichVars, shardVars, convVars, retryVars, keywordVars, streamVars, pathVars, countVars>>

\* parseJSONFile without stream-json or with ENABLE_STREAMING unset
ParseFallback ==
    /\ fallback = Pending
    /\ fallback' = Resolved(parseWithFallback(parseFile.shape, parseFile.products))
    /\ UNCHANGED <<parseFile, parseHint, streamed, detected>>
    /\ UNCHANGED <<fileVars, runVars, ckVars, stats, runProcessed, completionOrder>>
    /\ UNCHANGED <<enrichVars, shardVars, convVars, retryVars, keywordVars, streamVars, pathVars, countVars>>

\* detectFormatAndExtractProducts reads firstProduct.title of a null element
detectionThrows(jsonData, formatHint) ==
    /\ jsonData.shape = "array"
    /\ formatHint = "auto"
    /\ Len(jsonData.products) > 0
    /\ jsonData.products[1].kind = "null"

\* detectFormatAndExtractProducts called on the top-level value
Detect ==
    /\ detected = Pending
    /\ detected' =
          IF detectionThrows(parseFile, parseHint)
          THEN [state |-> "thrown", products |-> <<>>, format |-> "none"]
          ELSE [state |-> "returned",
                products |-> parseWithFallback(parseFile.shape, parseFile.products),
                format |-> detectFormatAndExtractProducts(parseFile, parseHint)]
    /\ UNCHANGED <<parseFile, parseHint, streamed, fallback>>
    /\ UNCHANGED <<fileVars, runVars, ckVars, stats, runProcessed, completionOrder>>
    /\ UNCHANGED <<enrichVars, shardVars, convVars, retryVars, keywordVars, streamVars, pathVars, countVars>>

\* a file holding any top-level value, handed over with any hint
InitParse ==
    /\ cfg = [batchSize |-> 1, maxLines |-> 1, interval |-> 2, queue |-> FALSE,
              limit |-> 1]
    /\ dir = "ok"
    /\ ckFile = [state |-> "absent", files |-> {}]
    /\ ckStart = ckFile
    /\ InitPipeline
    /\ InitEnrichment
    /\ InitConversion
    /\ InitRetrying
    /\ parseFile \in TopLevelValues
    /\ parseHint \in DetectHints
    /\ streamed = Pending
    /\ fallback = Pending
    /\ detected = Pending
    /\ InitKeywords
    /\ InitStreams
    /\ InitPaths
    /\ InitCounting

NextParse ==
    \/ ParseStreaming
    \/ ParseFallback
    \/ Detect

SpecParse == InitParse /\ [][NextParse]_vars

(***************************************************************************)
(* TextProcessor.extractKeywords called on a text under a context, on a    *)
(* processor whose regex objects are as loaded.                            *)
(***************************************************************************)
MaxTokens == 2

\* the contexts getContextBoosts tells apart, and the ones it does not
Contexts == {"title", "brand", "category", "description", "attributes", "general"}

\* the body of filteredTokens.forEach: for each token in turn, the context
\* part of its boost (in tenths) and the pattern part (in 1/100000)
RECURSIVE Contributions(_, _, _)
Contributions(tokens, context, st) ==
    IF tokens = <<>> THEN <<>>
    ELSE LET pb == getPatternBoost(Head(tokens), st)
         IN <<[token |-> Head(tokens),
               contextBoost |-> ContextBoost(context, Head(tokens)),
               patternBoost |-> pb.boost]>>
            \o Contributions(Tail(tokens), context, pb.st)

ExtractKeywords ==
    /\ ~kwResult.done
    /\ LET r == extractKeywords(kwText, kwContext, reLastIndex)
       IN /\ kwResult' = [done |-> TRUE,
                          added |-> Contributions(kwText, kwContext, reLastIndex),
                          weight |-> r.weight]
          /\ reLastIndex' = r.st
    /\ UNCHANGED <<kwText, kwContext, enrichLog>>
    /\ UNCHANGED <<fileVars, runVars, ckVars, stats, runProcessed, completionOrder>>
    /\ UNCHANGED <<shardVars, convVars, retryVars, parseVars, streamVars, pathVars, countVars>>

\* extractKeywords called on any text of the vocabulary under any context
InitExtract ==
    /\ cfg = [batchSize |-> 1, maxLines |-> 1, interval |-> 2, queue |-> FALSE,
              limit |-> 1]
    /\ dir = "ok"
    /\ ckFile = [state |-> "absent", files |-> {}]
    /\ ckStart = ckFile
    /\ InitPipeline
    /\ InitEnrichment
    /\ InitConversion
    /\ InitRetrying
    /\ InitParsing
    /\ kwText \in UNION {[1..n -> Vocabulary] : n \in 1..MaxTokens}
    /\ kwContext \in Contexts
    /\ kwResult = [done |-> FALSE, added |-> <<>>, weight |-> <<>>]
    /\ InitStreams
    /\ InitPaths
    /\ InitCounting

NextExtract == ExtractKeywords

SpecExtract == InitExtract /\ [][NextExtract]_vars

(***************************************************************************)
(* One output file from its write stream to the end of the process.        *)
(* currentShardStream.write puts a line into the stream's buffer; the      *)
(* lines reach the file in callbacks of the event loop, which run only     *)
(* while the code waits for a timer or for input/output.  stream.end() is  *)
(* not awaited and no 'finish' event is listened to.  In custom mode the   *)
(* promise of processAnyJSONFile is followed by process.exit(0) with no    *)
(* turn of the event loop in between; in default mode the run goes on      *)
(* with the combined output and the report.                                *)
(***************************************************************************)
MaxWritten == 4

OutputModes == {"custom", "default"}

\* currentShardStream.write(JSON.stringify(product) + '\n')
StreamWrite ==
    /\ outPc = "writing"
    /\ outBuffered + outOnDisk < outTotal
    /\ outBuffered' = outBuffered + 1
    /\ UNCHANGED <<outMode, outTotal, outOnDisk, outPc>>
    /\ UNCHANGED <<fileVars, runVars, ckVars, stats, runProcessed, completionOrder>>
    /\ UNCHANGED <<enrichVars, shardVars, convVars, retryVars, parseVars, keywordVars, pathVars, countVars>>

\* processBatchWithRetry awaits the retry delay on a record of the next batch
AwaitDelay ==
    /\ outPc \in {"writing", "delay"}
    /\ outBuffered + outOnDisk < outTotal
    /\ outPc' = IF outPc = "writing" THEN "delay" ELSE "writing"
    /\ UNCHANGED <<outMode, outTotal, outBuffered, outOnDisk>>
    /\ UNCHANGED <<fileVars, runVars, ckVars, stats, runProcessed, completionOrder>>
    /\ UNCHANGED <<enrichVars, shardVars, convVars, retryVars, parseVars, keywordVars, pathVars, countVars>>

\* a turn of the event loop: the stream writes its buffer to the file
Flush ==
    /\ \/ outPc = "delay"
       \/ outPc \in {"ended", "completed"} /\ outMode = "default"
    /\ outBuffered > 0
    /\ outOnDisk' = outOnDisk + outBuffered
    /\ outBuffered' = 0
    /\ UNCHANGED <<outMode, outTotal, outPc>>
    /\ UNCHANGED <<fileVars, runVars, ckVars, stats, runProcessed, completionOrder>>
    /\ UNCHANGED <<enrichVars, shardVars, convVars, retryVars, parseVars, keywordVars, pathVars, countVars>>

\* the finally block of processBatchesWithSharding: currentShardStream.end()
EndStream ==
    /\ outPc = "writing"
    /\ outBuffered + outOnDisk = outTotal
    /\ outPc' = "ended"
    /\ UNCHANGED <<outMode, outTotal, outBuffered, outOnDisk>>
    /\ UNCHANGED <<fileVars, runVars, ckVars, stats, runProcessed, completionOrder>>
    /\ UNCHANGED <<enrichVars, shardVars, convVars, retryVars, parseVars, keywordVars, pathVars, countVars>>

\* processFileWithTracking marks the file processed and adds it to the
\* completed set; in custom mode the promise of processAnyJSONFile resolves
RecordComplete ==
    /\ outPc = "ended"
    /\ outPc' = "completed"
    /\ UNCHANGED <<outMode, outTotal, outBuffered, outOnDisk>>
    /\ UNCHANGED <<fileVars, runVars, ckVars, stats, runProcessed, completionOrder>>
    /\ UNCHANGED <<enrichVars, shardVars, convVars, retryVars, parseVars, keywordVars, pathVars, countVars>>

\* process.exit(0): what the streams still buffer is dropped
ExitProcess ==
    /\ outPc = "completed"
    /\ outPc' = "exited"
    /\ UNCHANGED <<outMode, outTotal, outBuffered, outOnDisk>>
    /\ UNCHANGED <<fileVars, runVars, ckVars, stats, runProcessed, completionOrder>>
    /\ UNCHANGED <<enrichVars, shardVars, convVars, retryVars, parseVars, keywordVars, pathVars, countVars>>

\* the stream of a file is created, with lines to come
InitStream ==
    /\ cfg = [batchSize |-> 1, maxLines |-> 1, interval |-> 2, queue |-> FALSE,
              limit |-> 1]
    /\ dir = "ok"
    /\ ckFile = [state |-> "absent", files |-> {}]
    /\ ckStart = ckFile
    /\ InitPipeline
    /\ InitEnrichment
    /\ InitConversion
    /\ InitRetrying
    /\ InitParsing
    /\ InitKeywords
    /\ outMode \in OutputModes
    /\ outTotal \in 1..MaxWritten
    /\ outBuffered = 0
    /\ outOnDisk = 0
    /\ outPc = "writing"
    /\ InitPaths
    /\ InitCounting

NextStream ==
    \/ StreamWrite
    \/ AwaitDelay
    \/ Flush
    \/ EndStream
    \/ RecordComplete
    \/ ExitProcess

SpecStream == InitStream /\ [][NextStream]_vars

(***************************************************************************)
(* discoverJSONFiles and generateOutputPath on the names of the input      *)
(* directory.  A name is its base and its extension (path.extname); an     *)
(* output path is the output directory, the base it is built from and the  *)
(* suffix _commerce_ready.jsonl, and is represented by that base.          *)
(***************************************************************************)
MaxListed == 3

FileNames ==
    [base : {"a", "b", "all_data_files"}, ext : {".json", ".JSON", ".tmp"}]

\* FILE_PATTERNS.INCLUDE, /\.json$/i, and FILE_PATTERNS.EXCLUDE
INCLUDE(file) == file.ext \in {".json", ".JSON"}
EXCLUDE(file) == file.ext = ".tmp"

\* path.basename(inputFilePath, path.extname(inputFilePath)) with the suffix
generateOutputPath(inputFilePath) == inputFilePath.base

\* writeCombinedOutput: 'all_data_files_commerce_ready.jsonl'
combinedPath == "all_data_files"

\* discoverJSONFiles; it throws when no name is kept
Discover ==
    /\ pathPc = "start"
    /\ jsonFiles' = {file \in listing : INCLUDE(file) /\ ~EXCLUDE(file)}
    /\ pathPc' = IF jsonFiles' = {} THEN "thrown" ELSE "discovered"
    /\ UNCHANGED <<listing, outputPaths>>
    /\ UNCHANGED <<fileVars, runVars, ckVars, stats, runProcessed, completionOrder>>
    /\ UNCHANGED <<enrichVars, shardVars, convVars, retryVars, parseVars, keywordVars, streamVars, countVars>>

\* processFileWithTracking starts on a discovered file
GenerateOutputPath(file) ==
    /\ pathPc = "discovered"
    /\ file \in jsonFiles
    /\ file \notin DOMAIN outputPaths
    /\ outputPaths' = [g \in DOMAIN outputPaths \cup {file} |->
                          IF g = file THEN generateOutputPath(file) ELSE outputPaths[g]]
    /\ UNCHANGED <<listing, jsonFiles, pathPc>>
    /\ UNCHANGED <<fileVars, runVars, ckVars, stats, runProcessed, completionOrder>>
    /\ UNCHANGED <<enrichVars, shardVars, convVars, retryVars, parseVars, keywordVars, streamVars, countVars>>

\* an input directory holding any names
InitDiscover ==
    /\ cfg = [batchSize |-> 1, maxLines |-> 1, interval |-> 2, queue |-> FALSE,
              limit |-> 1]
    /\ dir = "ok"
    /\ ckFile = [state |-> "absent", files |-> {}]
    /\ ckStart = ckFile
    /\ InitPipeline
    /\ InitEnrichment
    /\ InitConversion
    /\ InitRetrying
    /\ InitParsing
    /\ InitKeywords
    /\ InitStreams
    /\ listing \in {l \in SUBSET FileNames : Cardinality(l) <= MaxListed}
    /\ jsonFiles = {}
    /\ outputPaths = <<>>
    /\ pathPc = "start"
    /\ InitCounting

NextDiscover ==
    \/ Discover
    \/ \E file \in FileNames : GenerateOutputPath(file)

SpecDiscover == InitDiscover /\ [][NextDiscover]_vars

(***************************************************************************)
(* addEmbeddingsToProduct, the attributes it attaches and the count it     *)
(* sets, under both values of ENABLE_DENSE and ENABLE_SPARSE.  A text is a *)
(* sequence of tokens; "the" is a stop word, which extractKeywords drops.  *)
(***************************************************************************)
MaxWords == 1

Words == {"the", "whey"}

Texts == UNION {[1..n -> Words] : n \in 0..MaxWords}

\* generateDenseEmbedding: null when ENABLE_DENSE is unset
DenseOrNull(enableDense) == IF enableDense THEN "vector" ELSE "null"

\* generateMultipleDenseEmbeddings: the keys of the object it returns and
\* their values
generateMultipleDenseEmbeddings(enableDense, components) ==
    [k \in (IF enableDense THEN {"primary"} ELSE {})
              \cup (IF components.title # <<>> THEN {"title"} ELSE {})
              \cup (IF components.categories # <<>> THEN {"category"} ELSE {})
        |-> DenseOrNull(enableDense)]

\* generateSparseEmbedding: null when ENABLE_SPARSE is unset, else the
\* keywords of the text (its tokens that are no stop words), none included
SparseKeywords(enableSparse, text) ==
    IF enableSparse
    THEN [isNull |-> FALSE, keywords |-> SelectSeq(text, LAMBDA t : t # "the")]
    ELSE [isNull |-> TRUE, keywords |-> <<>>]

\* "Add primary dense embedding", ..., "Add enhanced sparse embedding"
AttachedEmbeddings(dense, sparse) ==
    {a \in {"dense_embedding", "title_embedding", "category_embedding",
            "sparse_embedding"} :
        \/ a = "dense_embedding" /\ "primary" \in DOMAIN dense
              /\ dense["primary"] # "null"
        \/ a = "title_embedding" /\ "title" \in DOMAIN dense
              /\ dense["title"] # "null"
        \/ a = "category_embedding" /\ "category" \in DOMAIN dense
              /\ dense["category"] # "null"
        \/ a = "sparse_embedding" /\ ~sparse.isNull /\ Len(sparse.keywords) > 0}

\* Object.keys(denseEmbeddings).length + (sparseEmbedding ? 1 : 0)
EmbeddingCount(dense, sparse) ==
    Cardinality(DOMAIN dense) + (IF sparse.isNull THEN 0 ELSE 1)

AddEmbeddings ==
    /\ embResult.state = "pending"
    /\ LET text == embInput.title \o embInput.categories \o embInput.description
           dense == generateMultipleDenseEmbeddings(embCfg.dense, embInput)
           sparse == SparseKeywords(embCfg.sparse, text)
       IN embResult' =
             IF text = <<>>
             THEN [state |-> "returned as given", attached |-> {}, embedding_count |-> 0]
             ELSE [state |-> "enriched",
                   attached |-> AttachedEmbeddings(dense, sparse),
                   embedding_count |-> EmbeddingCount(dense, sparse)]
    /\ UNCHANGED <<embCfg, embInput>>
    /\ UNCHANGED <<fileVars, runVars, ckVars, stats, runProcessed, completionOrder>>
    /\ UNCHANGED <<enrichVars, shardVars, convVars, retryVars, parseVars, keywordVars, streamVars, pathVars>>

\* a product with any texts, under any setting of the two toggles
InitCount ==
    /\ cfg = [batchSize |-> 1, maxLines |-> 1, interval |-> 2, queue |-> FALSE,
              limit |-> 1]
    /\ dir = "ok"
    /\ ckFile = [state |-> "absent", files |-> {}]
    /\ ckStart = ckFile
    /\ InitPipeline
    /\ InitEnrichment
    /\ InitConversion
    /\ InitRetrying
    /\ InitParsing
    /\ InitKeywords
    /\ InitStreams
    /\ InitPaths
    /\ embCfg \in [dense : BOOLEAN, sparse : BOOLEAN]
    /\ embInput \in [title : Texts, categories : Texts, description : Texts]
    /\ embResult = [state |-> "pending", attached |-> {}, embedding_count |-> 0]

NextCount == AddEmbeddings

SpecCount == InitCount /\ [][NextCount]_vars

(***************************************************************************)
(* Properties.                                                             *)
(***************************************************************************)
Lines(f) == Flatten(shards[f])

\* the records of f consumed so far that pushed no product
PermanentlyFailed(f) ==
    {i \in 1..Len(input[f]) :
        convertVertexProduct(f, i, input[f][i]).outcome # "product"}

\* the records of f consumed so far that were converted
Succeeded(f) == (1..Len(input[f])) \ PermanentlyFailed(f)

\* the sources of a sequence of lines, in the order they first appear
RECURSIVE SrcOrder(_)
SrcOrder(lines) ==
    IF lines = <<>> THEN <<>>
    ELSE LET rest == SrcOrder(Tail(lines))
         IN <<Head(lines).src>> \o SelectSeq(rest, LAMBDA g : g # Head(lines).src)

\* C1: a record whose normalization fails (the null record included) is
\* dropped alone: its file is never thrown out of batch processing nor
\* marked failed because of it.
C1_NormalizationFailureDropsOnlyRecord ==
    \A f \in Files :
        (\E i \in 1..Len(input[f]) : input[f][i] \in {"noprod", "nullrec"})
            => /\ pc[f] \notin {"throwing", "failed"}
               /\ ~(stats[f].recorded /\ ~stats[f].processed)

\* C2: for every file whose processing completed, the lines of all its
\* shards are as many as its input records minus the permanently failed
\* ones, no record is written twice and no converted record is missing.
C2_LinesEqualInputMinusFailed ==
    \A f \in Files :
        pc[f] = "done" =>
            /\ Len(input[f]) = len[f]
            /\ Len(Lines(f)) = len[f] - Cardinality(PermanentlyFailed(f))
            /\ \A p, q \in 1..Len(Lines(f)) :
                  p # q => Lines(f)[p].idx # Lines(f)[q].idx
            /\ \A i \in Succeeded(f) : \E p \in 1..Len(Lines(f)) : Lines(f)[p].idx = i

C2_Witness ==
    \E f \in Files :
        /\ pc[f] = "done"
        /\ ShouldShard(len[f], cfg.maxLines)
        /\ PermanentlyFailed(f) # {}
        /\ Lines(f) # <<>>

\* C3: with a readable checkpoint at the start of the run, every file the
\* checkpoint lists is skipped (never parsed, nothing written or recorded
\* for it) and every other discovered file is processed.
C3_CheckpointedFilesSkipped ==
    (runPc \in {"running", "finished"} /\ ckStart.state = "ok") =>
        \A f \in Files :
            IF f \in ckStart.files
            THEN /\ pc[f] = "skipped"
                 /\ input[f] = <<>> /\ shards[f] = <<>>
                 /\ ~stats[f].recorded
            ELSE /\ pc[f] # "skipped"
                 /\ runPc = "finished" => pc[f] \in {"done", "failed"}

C3_Witness ==
    /\ runPc = "finished"
    /\ ckStart.state = "ok"
    /\ ckStart.files = {"a.json"}
    /\ pc["b.json"] = "done"
    /\ Lines("b.json") # <<>>

\* C4: the checkpoint file is deleted only by a run in which every
\* discovered file was processed successfully (now or in the run that
\* wrote the checkpoint).
C4_CheckpointDeletedOnlyOnSuccess ==
    ckDeleted => \A f \in Files : pc[f] \in {"skipped", "done"}

\* C5: whenever the records processed in the run reach or pass a further
\* multiple of CHECKPOINT_INTERVAL, saveCheckpoint has been executed for it.
C5_CheckpointEveryInterval ==
    saves >= runProcessed \div cfg.interval

\* C6: a file that cannot be parsed, or whose processing throws, is recorded
\* as failed with its error; the run still finishes with every other file
\* processed, and it is never the failure of a file that makes
\* processAllDataFiles reject.
C6_FileFailureIsolated ==
    /\ \A f \in Files :
          pc[f] = "failed" =>
             /\ stats[f].recorded /\ ~stats[f].processed
             /\ stats[f].error # "" /\ stats[f].error = err[f]
    /\ runPc = "finished" =>
          /\ \A f \in Files :
                InToProcess(f) =>
                   \/ pc[f] = "failed"
                   \/ pc[f] = "done" /\ stats[f].processed /\ Len(input[f]) = len[f]
          /\ report.written
          /\ report.failed_to_process = Cardinality({f \in Files : pc[f] = "failed"})
    /\ runPc = "aborted" => \A f \in Files : pc[f] = "idle"

C6_Witness ==
    /\ runPc = "finished"
    /\ pc["a.json"] = "failed"
    /\ pc["b.json"] = "done"
    /\ Lines("b.json") # <<>>

\* C7: a record whose enrichment raises is still emitted, once, as the
\* canonical record the converter produced, with no generated attribute.
C7_EnrichFailureStillEmitted ==
    \A f \in Files :
        \A i \in 1..Len(input[f]) :
            (input[f][i] = "enrichfail" /\ i <= processedCount[f]) =>
                /\ Cardinality({p \in 1..Len(Lines(f)) : Lines(f)[p].idx = i}) = 1
                /\ \A p \in 1..Len(Lines(f)) :
                      Lines(f)[p].idx = i =>
                         /\ Lines(f)[p] = convertVertexProduct(f, i, "enrichfail").product
                         /\ Lines(f)[p].attrs \cap GeneratedAttrs = {}

C7_Witness ==
    \E f \in Files :
        /\ pc[f] = "done"
        /\ \E i \in 1..Len(input[f]) : input[f][i] = "enrichfail"

\* C8: enriching the same canonical record gives the same dense vector,
\* the same sparse vector and the same readiness score on every call,
\* whatever was enriched before.
C8_EnrichmentDeterministic ==
    \A i, j \in 1..Len(enrichLog) :
        enrichLog[i].product = enrichLog[j].product =>
            /\ enrichLog[i].dense = enrichLog[j].dense
            /\ enrichLog[i].sparse = enrichLog[j].sparse
            /\ enrichLog[i].score = enrichLog[j].score

\* C9 (as claimed): in the combined output the files' records appear in the
\* order in which the files' processing completed.
C9_CombinedInCompletionOrder ==
    runPc = "finished" =>
        SrcOrder(Flatten(combined))
            = SelectSeq(completionOrder, LAMBDA f : converted[f] # <<>>)

\* C9 (amended): in the combined output the files' records appear in the
\* order of filesToProcess, which is discovery order, whatever the order in
\* which the files completed; each file's records are its converted
\* products, in their order.
C9_CombinedInDiscoveryOrder ==
    runPc = "finished" =>
        LET all == Flatten(combined)
        IN /\ \A p, q \in 1..Len(all) :
                 p < q => IndexOf(all[p].src) <= IndexOf(all[q].src)
           /\ \A f \in Files :
                 SelectSeq(all, LAMBDA l : l.src = f)
                    = IF pc[f] = "done" THEN converted[f] ELSE <<>>

C9_Witness ==
    /\ runPc = "finished"
    /\ completionOrder = <<"b.json", "a.json">>
    /\ converted["a.json"] # <<>>
    /\ converted["b.json"] # <<>>

\* C10: the lines of one file are in input order across its shards (every
\* line of a shard precedes in input order every line of the next shard)
\* and are exactly the converted records among those processed so far.
C10_ShardOrderFollowsInput ==
    \A f \in Files :
        /\ \A p, q \in 1..Len(Lines(f)) : p < q => Lines(f)[p].idx < Lines(f)[q].idx
        /\ \A k \in 1..(Len(shards[f]) - 1) :
              \A p \in 1..Len(shards[f][k]), q \in 1..Len(shards[f][k + 1]) :
                 shards[f][k][p].idx < shards[f][k + 1][q].idx
        /\ {Lines(f)[p].idx : p \in 1..Len(Lines(f))}
              = {i \in Succeeded(f) : i <= processedCount[f]}

C10_Witness ==
    \E f \in Files :
        /\ pc[f] = "done"
        /\ Len(shards[f]) = 2
        /\ shards[f][1] # <<>> /\ shards[f][2] # <<>>

\* C11: at every moment the number of files whose processing has started
\* and not finished is at most CONCURRENCY_LIMIT when the queue exists, and
\* at most 1 when it does not.
C11_ActiveFilesWithinLimit ==
    Cardinality({f \in Files : Active(f)}) <= (IF cfg.queue THEN cfg.limit ELSE 1)

\* the limit binds: as many files as allowed are being processed and
\* another one waits in the queue
C11_Witness ==
    /\ runPc = "running"
    /\ Cardinality({f \in Files : Active(f)}) = (IF cfg.queue THEN cfg.limit ELSE 1)
    /\ \E f \in Files : pc[f] = "queued"

\* the files of f that were written with sharding active and are complete
ShardedDone(f) == pc[f] = "done" /\ SHARD_OUTPUT /\ len[f] > cfg.maxLines

\* the shard files of f carry the ordinals 000, 001, ... in the order they
\* were opened, and their lines add up to the records minus the failed ones
ShardFilesAccount(f) ==
    /\ Len(opened[f]) = Len(shards[f])
    /\ \A k \in 1..Len(opened[f]) :
          opened[f][k] = <<(k - 1) \div 100, ((k - 1) \div 10) % 10, (k - 1) % 10>>
    /\ SeqSum([k \in 1..Len(shards[f]) |-> Len(shards[f][k])])
          = len[f] - Cardinality(PermanentlyFailed(f))

\* C12 (as claimed): a file with more records than MAX_LINES_PER_SHARD
\* leaves more than one shard file, with consecutive ordinals from 000 and
\* line counts adding up to the records minus the failed ones, whatever
\* number of records failed.
C12_MoreThanOneShard ==
    \A f \in Files :
        ShardedDone(f) => Len(shards[f]) > 1 /\ ShardFilesAccount(f)

\* C12 (amended): a file with more records than MAX_LINES_PER_SHARD leaves
\* shard files with consecutive ordinals from 000 whose line counts add up
\* to the records minus the failed ones; there is more than one shard file
\* exactly when more than MAX_LINES_PER_SHARD lines were written.
C12_ShardsFollowWrittenLines ==
    \A f \in Files :
        ShardedDone(f) =>
            /\ ShardFilesAccount(f)
            /\ Len(shards[f]) >= 1
            /\ Len(shards[f]) > 1 <=> Len(Lines(f)) > cfg.maxLines

\* a sharded file is complete with the shard files 000 and 001
C12_Witness ==
    \E f \in Files :
        /\ ShardedDone(f)
        /\ opened[f] = << <<0, 0, 0>>, <<0, 0, 1>> >>
        /\ \A k \in 1..Len(shards[f]) : shards[f][k] # <<>>

\* every shard of the sequence but the last holds exactly maxLines lines
\* and the last one at most maxLines
ShardsWithinBound(sh, maxLines) ==
    \A k \in 1..Len(sh) :
        IF k < Len(sh) THEN Len(sh[k]) = maxLines ELSE Len(sh[k]) <= maxLines

\* C13: with sharding active the open shard holds at most
\* MAX_LINES_PER_SHARD lines and every shard closed before it exactly
\* MAX_LINES_PER_SHARD; shards are opened with the indices 0, 1, 2, ... and no
\* path is opened twice.  The same holds for the shards of the combined output.
C13_ShardBoundAndIncreasingIndices ==
    /\ \A f \in Files :
          (shards[f] # <<>> /\ ShouldShard(len[f], cfg.maxLines)) =>
              /\ ShardsWithinBound(shards[f], cfg.maxLines)
              /\ currentShard[f] = Len(opened[f]) - 1
              /\ \A j, k \in 1..Len(opened[f]) :
                    j < k => /\ opened[f][j] # opened[f][k]
                             /\ opened[f][k][3] = opened[f][j][3] + (k - j)
    /\ Len(combined) > 1 => ShardsWithinBound(combined, cfg.maxLines)

\* a file is being written with one shard closed and the next one open
C13_Witness ==
    \E f \in Files :
        /\ pc[f] = "batching"
        /\ ShouldShard(len[f], cfg.maxLines)
        /\ currentShard[f] = 1
        /\ Len(shards[f][1]) = cfg.maxLines

\* C14: with the hint auto, a file holding a bare array whose first element
\* has neither a title nor categories is detected as generic and its first
\* record is normalized with the generic alias table (name -> title,
\* cost -> priceInfo.price).
C14_BareArrayDetectedGeneric ==
    (/\ convFile = [shape |-> "array", hint |-> "auto"]
     /\ convPc \in {"detected", "first", "second"}
     /\ parsed[1].title = <<>> /\ parsed[1].categories = <<>>) =>
        /\ convFormat = "generic"
        /\ emitted # <<>> =>
              /\ parsed[1].name # <<>> => emitted[1].out.title = parsed[1].name[1]
              /\ emitted[1].out.price = parsed[1].cost

\* C15: no two records emitted in a run carry the same id; records whose
\* source has no id included (source ids that are equal set aside).
C15_EmittedIdsUnique ==
    \A i, j \in 1..Len(emitted) :
        (i # j /\ (emitted[i].raw.id = <<>> \/ emitted[j].raw.id = <<>>
                   \/ emitted[i].raw.id # emitted[j].raw.id)) =>
            emitted[i].out.id # emitted[j].out.id

\* C16: every emitted record's availability is IN_STOCK or OUT_OF_STOCK, an
\* explicit IN_STOCK or OUT_OF_STOCK of the source is kept, without an
\* explicit status the inventory count decides, and without either the
\* record is IN_STOCK.
C16_AvailabilityEnumAndPrecedence ==
    \A i \in 1..Len(emitted) :
        LET raw == emitted[i].raw
            out == emitted[i].out.availability
        IN /\ out \in {"IN_STOCK", "OUT_OF_STOCK"}
           /\ raw.availability = <<"IN_STOCK">> => out = "IN_STOCK"
           /\ raw.availability = <<"OUT_OF_STOCK">> => out = "OUT_OF_STOCK"
           /\ (raw.availability = <<>> /\ raw.quantity # <<>>) =>
                 out = (IF raw.quantity[1] > 0 THEN "IN_STOCK" ELSE "OUT_OF_STOCK")
           /\ (raw.availability = <<>> /\ raw.quantity = <<>>) => out = "IN_STOCK"

\* C17: when the input directory is missing or holds no eligible JSON file
\* the run ends with an error: no file is processed, no output and no
\* report is written, the checkpoint file is as the run found it and the
\* memory sampler is stopped.
C17_AbortLeavesNothingBehind ==
    (dir # "ok" /\ runPc # "start") =>
        /\ runPc = "aborted"
        /\ \A f \in Files : pc[f] = "idle" /\ shards[f] = <<>> /\ ~stats[f].recorded
        /\ combined = <<>>
        /\ ~report.written
        /\ ckFile = ckStart /\ ~ckDeleted
        /\ ~monitor

\* a run aborted that found a readable checkpoint
C17_Witness ==
    /\ runPc = "aborted"
    /\ dir \in {"missing", "empty"}
    /\ ckStart.state = "ok" /\ ckStart.files # {}

\* every file handed to processFileWithTracking has settled
AllSettled == runPc \in {"running", "finished"} /\ \A f \in Files : ~Active(f) /\ pc[f] # "queued"

\* C18: once every file of the run has finished, under every interleaving,
\* the statistics hold one entry for each file processed in the run and for
\* no other, marked processed exactly for the files that completed, and the
\* completed set holds the files loaded from the checkpoint and the files
\* that completed in the run, no more and no less.
C18_NoLostCompletionUpdate ==
    AllSettled =>
        /\ \A f \in Files :
              /\ stats[f].recorded <=> InToProcess(f)
              /\ stats[f].processed <=> pc[f] = "done"
              /\ pc[f] = "done" => stats[f].totalProducts = Len(converted[f])
        /\ ckMem = (IF resuming THEN ckStart.files ELSE {})
                      \cup {f \in Files : pc[f] = "done"}

\* two files processed at the same time have completed, the second before
\* the first
C18_Witness ==
    /\ AllSettled
    /\ cfg.queue /\ cfg.limit = 2
    /\ completionOrder = <<"b.json", "a.json">>
    /\ ckMem = Files
    /\ \A f \in Files : stats[f].processed

\* the attempts processBatchWithRetry has made on the record at position i
AttemptsOn(i) ==
    Cardinality({k \in 1..Len(retryLog) :
                    retryLog[k].rec = i /\ retryLog[k].ev = "attempt"})

\* C19: processBatchWithRetry makes at most RETRY_ATTEMPTS attempts on each
\* record and then moves on to the next one: when it is over, every record
\* of the batch has been attempted and the results were returned.
C19_BoundedAttemptsThenMovesOn ==
    /\ \A i \in 1..Len(retryBatch) : AttemptsOn(i) <= RETRY_ATTEMPTS
    /\ retryPc \in {"returned", "threw"} =>
          /\ retryPc = "returned"
          /\ \A i \in 1..Len(retryBatch) : AttemptsOn(i) >= 1

\* C20: between two consecutive attempts on the same record the retry delay
\* elapses, whichever way the first of them failed.
C20_DelayBetweenAttempts ==
    \A k \in 1..(Len(retryLog) - 1) :
        (/\ retryLog[k].ev = "attempt"
         /\ retryLog[k + 1].ev = "attempt")
        => retryLog[k].rec # retryLog[k + 1].rec

\* C21: on every accepted top-level shape the incremental parser and the
\* whole-file parser settle the same way, with the same sequence of raw
\* products.
C21_ParsersAgree ==
    (streamed # Pending /\ fallback # Pending) => streamed = fallback

\* C22: on every top-level value and every hint, format detection returns
\* without raising and the tag it returns is vertex or generic.
C22_DetectionFailsSoft ==
    detected # Pending =>
        /\ detected.state = "returned"
        /\ detected.format \in {"vertex", "generic"}

\* C23: in keyword extraction each retained token adds to its term's weight
\* the boost of the context under which the text is extracted (title 3.0,
\* brand 2.5, category 2.0, description 1.5, otherwise 1) times the pattern
\* boosts, whatever the token's spelling.
C23_ContextBoostByField ==
    kwResult.done =>
        \A k \in 1..Len(kwResult.added) :
            kwResult.added[k].contextBoost =
                CASE kwContext = "title" -> 30
                  [] kwContext = "brand" -> 25
                  [] kwContext = "category" -> 20
                  [] kwContext = "description" -> 15
                  [] OTHER -> 10

\* C24: a file is recorded as complete, or the process exits with success,
\* only when every line written for it has reached the output file.
C24_CompleteOnlyWhenFlushed ==
    outPc \in {"completed", "exited"} => outBuffered = 0

\* the checkpoint file on disk was written by this run
PersistedByRun == saves > 0 /\ ckFile.state = "ok"

\* C25: every file name in a checkpoint the run persists belongs to a file
\* that completed in this run or that the checkpoint loaded at start listed;
\* a file in progress or failed is never in it; the set of a later
\* checkpoint of the run contains the set of the earlier one and the set
\* loaded at start.
C25_CheckpointHoldsCompletedOnly ==
    /\ [](PersistedByRun =>
            /\ ckFile.files \subseteq
                  (IF resuming THEN ckStart.files ELSE {})
                     \cup {f \in Files : pc[f] = "done"}
            /\ \A f \in ckFile.files : pc[f] \in {"done", "skipped"})
    /\ [][saves' > saves =>
            (IF PersistedByRun \/ resuming THEN ckFile.files ELSE {})
               \subseteq ckFile'.files]_vars

\* a checkpoint saved while b.json is in progress lists a.json, which
\* completed in this run
C25_Witness ==
    /\ PersistedByRun
    /\ ~resuming
    /\ ckFile.files = {"a.json"}
    /\ pc["a.json"] = "done"
    /\ pc["b.json"] = "batching"
    /\ processedCount["b.json"] > 0

\* C26: any two distinct discovered input files are given distinct per-file
\* output paths and no per-file output path is the combined output path.
C26_OutputPathsDistinct ==
    /\ \A f, g \in DOMAIN outputPaths :
          f # g => outputPaths[f] # outputPaths[g]
    /\ \A f \in DOMAIN outputPaths : outputPaths[f] # combinedPath

\* C27: the combined output of a run holds exactly the lines emitted for the
\* files that completed in the run, the report's product totals count
\* exactly those lines, and a file skipped because the loaded checkpoint
\* listed it has no line in the combined output and no statistics entry.
C27_CombinedAndTotalsOfThisRun ==
    (runPc = "finished" /\ report.written) =>
        LET all == Flatten(combined)
        IN /\ \A f \in Files :
                 SelectSeq(all, LAMBDA l : l.src = f)
                    = IF pc[f] = "done" THEN Lines(f) ELSE <<>>
           /\ report.total_products = Len(all)
           /\ report.products_with_embeddings = countProductsWithEmbeddings(all)
           /\ report.successfully_processed + report.failed_to_process
                 = Len(toProcess)
           /\ \A f \in Files :
                 pc[f] = "skipped" =>
                    /\ ~stats[f].recorded
                    /\ \A k \in 1..Len(all) : all[k].src # f

\* a run resumed from a checkpoint listing a.json has finished with a
\* report counting the lines of b.json
C27_Witness ==
    /\ runPc = "finished"
    /\ report.written
    /\ resuming
    /\ pc["a.json"] = "skipped"
    /\ pc["b.json"] = "done"
    /\ report.total_products = Len(Lines("b.json"))
    /\ report.total_products > 0

\* C28: a file the report marks as failed has left no output line of this
\* run behind, in no output file or shard.
C28_FailedFileLeavesNoOutput ==
    \A f \in Files :
        (stats[f].recorded /\ ~stats[f].processed) =>
            /\ stats[f].totalProducts = 0
            /\ Lines(f) = <<>>

\* C29: on every enriched record embedding_count is the number of embedding
\* attributes present on it among dense_embedding, title_embedding,
\* category_embedding and sparse_embedding.
C29_EmbeddingCountMatchesAttributes ==
    embResult.state = "enriched" =>
        embResult.embedding_count = Cardinality(embResult.attached)

\* C30: the embedding_success_rate of a written report is the rate the
\* report's validation recomputes from the report's counts, with no product
\* as with some: no rate mismatch is among the validation's errors.
C30_ReportedRateIsTheValidatedRate ==
    report.written =>
        /\ report.embedding_success_rate
              = expectedEmbeddingRate(report.total_products,
                                      report.products_with_embeddings)
        /\ "embedding success rate calculation mismatch"
              \notin report.validation.errors

====
